---- MODULE Spec2Model ----
(***************************************************************************)
(* Real-time coordination core of nest-chat-backend:                       *)
(*   - RandomChatGateway (matchmaking, signaling relay and connection      *)
(*     health, src/unnamed/part_004)                                       *)
(*   - RandomChatGateway v1 (persistence-backed matchmaking,               *)
(*     src/unnamed/part_001)                                               *)
(*   - CallService (call lifecycle, src/unnamed/part_019)                  *)
(*   - CallGateway (call signaling, src/src/call/call.gateway.ts)          *)
(*   - ChatService delivery/read tracking (src/src/chat/chat.service.ts)   *)
(* Each component owns its state and has its own specification            *)
(* (SpecMatch, SpecSignal, SpecHeartbeat, SpecMatchV1, SpecCall,           *)
(* SpecCallGateway, SpecCallSignal, SpecRead); SpecCallRace and            *)
(* SpecReadRace run the CallService and ChatService methods one awaited    *)
(* store operation at a time, so that concurrent requests interleave.      *)
(***************************************************************************)
EXTENDS Integers, Sequences, FiniteSets, TLC

VARIABLES
    now,              \* Date.now() / new Date(), in milliseconds
    last,             \* the handler that ran last: [op, a, b]
    \* ---- RandomChatGateway
    conn,             \* socket id -> "new" | "live" | "closed" | "gone"
    waitingQueue,     \* Set<Socket> in insertion order
    matches,          \* Map<string, string>: socket id -> partner id (NoSock = absent)
    rateLimitMap,     \* Map<string, number>: user id -> last action (0 = absent)
    lastAccepted,     \* history: user id -> time of its last find-partner that passed
                      \* the rate limit on arrival (0 = none)
    emitted,          \* what the last handler emitted: sequence of [to, ev, arg]
    iceCandidateBatches, \* Map<string, {candidates, timeout}>: socket id -> batch
    connectionMetrics,\* Map<string, ConnectionMetrics>: socket id -> lastHeartbeat (0 = absent)
    sweepAt,          \* when the heartbeat setInterval fires next
    iceTimers,        \* pending setTimeout callbacks of handleIceCandidate, per socket id
    \* ---- RandomChatGateway v1 (shares conn, waitingQueue, matches, emitted)
    activeConnections,\* Map<string, string>: socket id -> connection record id (0 = absent)
    connectionRecords,\* RandomVideoConnection rows in creation order: "open" | "ended"
    pendingCreate,    \* find-partner handlers suspended in prisma.create: <<client, partner>>
    \* ---- CallService (durable store)
    calls,            \* call id -> Call row (status "NONE" = no row)
    participants,     \* call id -> user id -> CallParticipant.status ("NONE" = no row)
    callEvents,       \* CallEvent rows: call id -> event type -> number of rows
    callResult,       \* outcome of the last CallService operation
    isMuted,          \* call id -> user id -> CallParticipant.isMuted
    isVideoOff,       \* call id -> user id -> CallParticipant.isVideoOff
    \* ---- CallGateway
    callSockets,      \* socket id -> [state, userId] (client.data.userId, 0 = undefined)
    activeCalls,      \* Map<string, Set<string>>: call id -> [present, sockets]
    callEmitted,      \* what the last CallGateway handler emitted: set of [to, ev, arg]
    \* ---- ChatService (durable store)
    conversationUsers,\* ConversationUser rows of the conversation: set of user ids
    messages,         \* Message rows in creation order: [senderId, createdAt]
    messageRead,      \* MessageRead rows: <<messageId, userId>> -> [deliveredAt, readAt]
    conversationRead, \* ConversationRead rows: userId -> [lastReadMessageId, lastReadAt]
    readResult,       \* what the last ChatService operation returned
    chatEmitted,      \* what the last ChatGateway handler emitted: sequence of [to, ev, arg]
    \* ---- requests in flight (the interleaving specifications)
    callTasks,        \* CallService requests suspended at an await: task -> [op, pc, ...]
    readTasks         \* ChatService requests suspended at an await: task -> [op, pc, ...]

iceVars == <<iceCandidateBatches, iceTimers>>
heartbeatVars == <<connectionMetrics, sweepAt>>
v1Vars == <<activeConnections, connectionRecords, pendingCreate>>
matchVars == <<conn, waitingQueue, matches, rateLimitMap, lastAccepted, emitted, iceVars,
              heartbeatVars, v1Vars>>
toggleVars == <<isMuted, isVideoOff>>
callGatewayVars == <<callSockets, activeCalls, callEmitted>>
callVars == <<calls, participants, callEvents, callResult, toggleVars, callGatewayVars>>
readVars == <<conversationUsers, messages, messageRead, conversationRead, readResult,
             chatEmitted>>
raceVars == <<callTasks, readTasks>>
vars == <<now, last, matchVars, callVars, readVars, raceVars>>

Null == 0

(***************************************************************************)
(* Bounds                                                                  *)
(***************************************************************************)
NumSockets == 3
NumMatchUsers == 2
MaxMatchTime == 2500

Sockets == 1..NumSockets
NoSock == 0
MatchUsers == 1..NumMatchUsers
\* client.data.userId: several connections may carry the same identity
UserOf(s) == ((s - 1) % NumMatchUsers) + 1
\* the clock starts at a positive epoch time and advances by these steps
StartTime == 500
MatchTicks == {500, 1000}

(***************************************************************************)
(* RandomChatGateway (v2)                                                  *)
(***************************************************************************)
RATE_LIMIT_MS == 1000

Range(q) == {q[i] : i \in 1..Len(q)}

SeqRemove(q, x) == SelectSeq(q, LAMBDA y : y # x)

Ev(to, ev, arg) == [to |-> to, ev |-> ev, arg |-> arg]

\* the handler that ran, with its arguments (ids a, b and, where it takes one, a set of ids)
OpWith(op, a, b, ids) == [op |-> op, a |-> a, b |-> b, ids |-> ids]

Op(op, a, b) == OpWith(op, a, b, {})

\* isRateLimited, the test: a recorded last action less than RATE_LIMIT_MS ago
rateLimitedNoWindow(rl, userId, t) == rl[userId] # Null

rateLimited(rl, userId, t) ==
    rl[userId] # Null /\ t - rl[userId] < RATE_LIMIT_MS

\* isRateLimited, the stamp taken when the request is accepted
stampAction(rl, userId, t) == [rl EXCEPT ![userId] = t]

\* waitingQueue.values().next().value : the first entry in insertion order
lastPartner(q) == q[Len(q)]

firstPartner(q) == Head(q)

\* waitingQueue.delete(partner)
keepPartner(q, p) == q

deletePartner(q, p) == SeqRemove(q, p)

\* matches.set(client.id, partner.id); matches.set(partner.id, client.id)
linkOneWay(m, c, p) == [m EXCEPT ![c] = p]

linkMatch(m, c, p) == [m EXCEPT ![c] = p, ![p] = c]

\* the guard "already in a match"
neverInMatch(m, c) == FALSE

inMatch(m, c) == m[c] # NoSock

\* cleanupUser: drop the client from the queue and dissolve its match
cleanupUserKeepPartner(st, c) ==
    LET p == st.matches[c] IN
    [st EXCEPT !.queue = SeqRemove(@, c),
               !.matches = [@ EXCEPT ![c] = NoSock],
               !.out = IF p # NoSock
                       THEN Append(@, Ev(p, "match-ended", 0))
                       ELSE @]

cleanupUser(st, c) ==
    LET p == st.matches[c] IN
    [st EXCEPT !.queue = SeqRemove(@, c),
               !.matches = IF p # NoSock
                           THEN [@ EXCEPT ![p] = NoSock, ![c] = NoSock]
                           ELSE [@ EXCEPT ![c] = NoSock],
               !.out = IF p # NoSock
                       THEN Append(@, Ev(p, "match-ended", 0))
                       ELSE @]

\* handleFindPartner, with its retry by recursion on a stale partner
handleFindPartnerBehindStale(st, c) ==
    IF rateLimited(st.rl, UserOf(c), now)
    THEN [st EXCEPT !.out = Append(@, Ev(c, "rate-limited", RATE_LIMIT_MS))]
    ELSE
    LET s1 == [st EXCEPT !.rl = stampAction(@, UserOf(c), now)] IN
    IF inMatch(s1.matches, c)
    THEN [s1 EXCEPT !.out = Append(@, Ev(c, "error", 1))]
    ELSE IF c \in Range(s1.queue)
    THEN [s1 EXCEPT !.out = Append(@, Ev(c, "error", 2))]
    ELSE IF Len(s1.queue) > 0 /\ conn[firstPartner(s1.queue)] = "live"
    THEN LET partner == firstPartner(s1.queue)
             s2 == [s1 EXCEPT !.queue = deletePartner(@, partner)]
         IN  [s2 EXCEPT
                !.matches = linkMatch(@, c, partner),
                !.out = @ \o <<Ev(c, "match-found", 1),
                               Ev(partner, "match-found", 2)>>]
    ELSE LET q2 == Append(s1.queue, c) IN
         [s1 EXCEPT !.queue = q2,
                    !.out = Append(@, Ev(c, "waiting-for-partner", Len(q2)))]

RECURSIVE handleFindPartner(_, _)
handleFindPartner(st, c) ==
    IF rateLimited(st.rl, UserOf(c), now)
    THEN [st EXCEPT !.out = Append(@, Ev(c, "rate-limited", RATE_LIMIT_MS))]
    ELSE
    LET s1 == [st EXCEPT !.rl = stampAction(@, UserOf(c), now)] IN
    IF inMatch(s1.matches, c)
    THEN [s1 EXCEPT !.out = Append(@, Ev(c, "error", 1))]
    ELSE IF c \in Range(s1.queue)
    THEN [s1 EXCEPT !.out = Append(@, Ev(c, "error", 2))]
    ELSE IF Len(s1.queue) > 0
    THEN LET partner == firstPartner(s1.queue)
             s2 == [s1 EXCEPT !.queue = deletePartner(@, partner)]
         IN  IF conn[partner] # "live"
             THEN handleFindPartner(s2, c)
             ELSE [s2 EXCEPT
                     !.matches = linkMatch(@, c, partner),
                     !.out = @ \o <<Ev(c, "match-found", 1),
                                    Ev(partner, "match-found", 2)>>]
    ELSE LET q2 == Append(s1.queue, c) IN
         [s1 EXCEPT !.queue = q2,
                    !.out = Append(@, Ev(c, "waiting-for-partner", Len(q2)))]

\* ---- ICE candidate batching
\* the clients that send ICE candidates
IceSenders == {1}

ICE_BATCH_DELAY == 50
\* if (batch.candidates.length >= 5)
ICE_BATCH_SIZE == 5

\* no entry in iceCandidateBatches
NoBatch == [candidates |-> <<>>, partnerId |-> NoSock, due |-> 0]

\* iceCandidateBatches.get(socketId) is defined (an entry always holds a candidate
\* and a pending timeout)
HasBatch(ice, s) == ice[s].candidates # <<>>

\* batch.timeout: the timer the entry holds, with the partnerId its callback captured
TimerOf(batch) == [partnerId |-> batch.partnerId, due |-> batch.due]

\* the oldest pending setTimeout of s has reached its delay
TimerDue(s) == iceTimers[s] # <<>> /\ now >= Head(iceTimers[s]).due

RECURSIVE removeFirst(_, _)
removeFirst(q, x) ==
    IF q = <<>> THEN <<>>
    ELSE IF Head(q) = x THEN Tail(q)
    ELSE <<Head(q)>> \o removeFirst(Tail(q), x)

\* clearTimeout(batch.timeout)
clearTimeout(timers, s, batch) == [timers EXCEPT ![s] = removeFirst(@, TimerOf(batch))]

flushKeepsBatch(ice, socketId, partnerId) ==
    IF ~HasBatch(ice, socketId)
    THEN [ice |-> ice, out |-> <<>>]
    ELSE [ice |-> ice,
          out |-> <<Ev(partnerId, "signal-ice-candidates-batch",
                       ice[socketId].candidates)>>]

\* flushIceBatch(socketId, partnerId): one message to partnerId, then the entry goes
flushIceBatch(ice, socketId, partnerId) ==
    IF ~HasBatch(ice, socketId)
    THEN [ice |-> ice, out |-> <<>>]
    ELSE [ice |-> [ice EXCEPT ![socketId] = NoBatch],
          out |-> <<Ev(partnerId, "signal-ice-candidates-batch",
                       ice[socketId].candidates)>>]

keepIceBatch(ice, socketId) == ice

\* cleanupIceBatch(socketId): the entry is deleted ...
cleanupIceBatch(ice, socketId) == [ice EXCEPT ![socketId] = NoBatch]

\* ... after clearTimeout(batch.timeout), if there is an entry
cleanupIceTimer(timers, ice, socketId) ==
    IF HasBatch(ice, socketId) THEN clearTimeout(timers, socketId, ice[socketId])
    ELSE timers

bufferWithoutSizeFlush(ice, timers, c, partnerId, candidate) ==
    LET fresh == ~HasBatch(ice, c)
        batch == IF fresh
                 THEN [candidates |-> <<>>, partnerId |-> partnerId,
                       due |-> now + ICE_BATCH_DELAY]
                 ELSE ice[c]
        pushed == [batch EXCEPT !.candidates = Append(@, candidate)]
    IN  [ice |-> [ice EXCEPT ![c] = pushed],
         timers |-> IF fresh THEN [timers EXCEPT ![c] = Append(@, TimerOf(batch))]
                    ELSE timers,
         out |-> <<>>]

\* handleIceCandidate for a client with a partner
bufferIceCandidate(ice, timers, c, partnerId, candidate) ==
    LET fresh == ~HasBatch(ice, c)
        batch == IF fresh
                 THEN [candidates |-> <<>>, partnerId |-> partnerId,
                       due |-> now + ICE_BATCH_DELAY]
                 ELSE ice[c]
        timers1 == IF fresh THEN [timers EXCEPT ![c] = Append(@, TimerOf(batch))]
                   ELSE timers
        pushed == [batch EXCEPT !.candidates = Append(@, candidate)]
        ice1 == [ice EXCEPT ![c] = pushed]
    IN  IF Len(pushed.candidates) >= ICE_BATCH_SIZE
        THEN LET r == flushIceBatch(ice1, c, partnerId) IN
             [ice |-> r.ice, timers |-> clearTimeout(timers1, c, pushed), out |-> r.out]
        ELSE [ice |-> ice1, timers |-> timers1, out |-> <<>>]

GatewayState ==
    [queue |-> waitingQueue, matches |-> matches, rl |-> rateLimitMap, out |-> <<>>]

SetGateway(st) ==
    /\ waitingQueue' = st.queue
    /\ matches' = st.matches
    /\ rateLimitMap' = st.rl
    /\ emitted' = st.out

\* handleConnection: a connection with a valid token becomes live
HandleConnection(s) ==
    /\ conn[s] = "new"
    /\ conn' = [conn EXCEPT ![s] = "live"]
    /\ emitted' = <<Ev(s, "connection-quality", 0)>>
    /\ last' = Op("connect", s, 0)
    /\ UNCHANGED <<now, waitingQueue, matches, rateLimitMap, lastAccepted, iceVars, heartbeatVars, v1Vars, callVars,
                   readVars, raceVars>>

\* The transport marks the connection not live (socket.connected = false);
\* the gateway learns of it only through the disconnect notification.
TransportClose(s) ==
    /\ conn[s] = "live"
    /\ conn' = [conn EXCEPT ![s] = "closed"]
    /\ emitted' = <<>>
    /\ last' = Op("close", s, 0)
    /\ UNCHANGED <<now, waitingQueue, matches, rateLimitMap, lastAccepted, iceVars, heartbeatVars, v1Vars, callVars,
                   readVars, raceVars>>

\* handleDisconnect
HandleDisconnect(s) ==
    /\ conn[s] = "closed"
    /\ conn' = [conn EXCEPT ![s] = "gone"]
    /\ LET st == cleanupUser(GatewayState, s) IN
       SetGateway([st EXCEPT !.rl = [@ EXCEPT ![UserOf(s)] = Null]])
    /\ iceCandidateBatches' = cleanupIceBatch(iceCandidateBatches, s)
    /\ iceTimers' = cleanupIceTimer(iceTimers, iceCandidateBatches, s)
    /\ last' = Op("disconnect", s, Len(iceCandidateBatches[s].candidates))
    /\ UNCHANGED <<now, lastAccepted, heartbeatVars, v1Vars, callVars,
                   readVars, raceVars>>

\* @SubscribeMessage('find-partner')
FindPartner(c) ==
    /\ conn[c] = "live"
    /\ SetGateway(handleFindPartner(GatewayState, c))
    /\ lastAccepted' = IF rateLimited(rateLimitMap, UserOf(c), now) THEN lastAccepted
                       ELSE [lastAccepted EXCEPT ![UserOf(c)] = now]
    /\ last' = Op("find-partner", c, 0)
    /\ UNCHANGED <<now, conn, iceVars, heartbeatVars, v1Vars, callVars,
                   readVars, raceVars>>

\* @SubscribeMessage('leave-pool')
LeavePool(c) ==
    /\ conn[c] = "live"
    /\ LET st == cleanupUser(GatewayState, c) IN
       SetGateway([st EXCEPT !.out = Append(@, Ev(c, "left-pool", 0))])
    /\ last' = Op("leave-pool", c, 0)
    /\ UNCHANGED <<now, conn, lastAccepted, iceVars, heartbeatVars, v1Vars, callVars,
                   readVars, raceVars>>

\* relay of one signaling message to the partner found in the match map
relaySignal(c, ev) ==
    LET partnerId == matches[c] IN
    IF partnerId # NoSock
    THEN <<Ev(partnerId, ev, c), Ev(c, ev \o "-ack", 0)>>
    ELSE <<>>

\* @SubscribeMessage('signal-offer')
HandleOffer(c) ==
    /\ conn[c] = "live"
    /\ emitted' = relaySignal(c, "signal-offer")
    /\ last' = Op("signal-offer", c, 0)
    /\ UNCHANGED <<now, conn, waitingQueue, matches, rateLimitMap, lastAccepted, iceVars,
                   heartbeatVars, v1Vars, callVars,
                   readVars, raceVars>>

\* @SubscribeMessage('signal-answer')
HandleAnswer(c) ==
    /\ conn[c] = "live"
    /\ emitted' = relaySignal(c, "signal-answer")
    /\ last' = Op("signal-answer", c, 0)
    /\ UNCHANGED <<now, conn, waitingQueue, matches, rateLimitMap, lastAccepted, iceVars,
                   heartbeatVars, v1Vars, callVars,
                   readVars, raceVars>>

\* the candidate a client sends: its own id and the number of the candidate in
\* the batch it goes to
nextCandidate(ice, c) == <<c, Len(ice[c].candidates) + 1>>

\* @SubscribeMessage('signal-ice-candidate')
HandleIceCandidate(c) ==
    /\ conn[c] = "live"
    /\ IF matches[c] = NoSock
       THEN /\ emitted' = <<>>
            /\ UNCHANGED iceVars
       ELSE LET r == bufferIceCandidate(iceCandidateBatches, iceTimers, c, matches[c],
                                        nextCandidate(iceCandidateBatches, c))
            IN  /\ iceCandidateBatches' = r.ice
                /\ iceTimers' = r.timers
                /\ emitted' = r.out
    /\ last' = Op("signal-ice-candidate", c, 0)
    /\ UNCHANGED <<now, conn, waitingQueue, matches, rateLimitMap, lastAccepted, heartbeatVars, v1Vars, callVars,
                   readVars, raceVars>>

\* the setTimeout callback of handleIceCandidate: flushIceBatch(client.id, partnerId)
\* with the partnerId the handler read when it created the batch
IceTimer(s) ==
    /\ TimerDue(s)
    /\ iceTimers' = [iceTimers EXCEPT ![s] = Tail(@)]
    /\ LET r == flushIceBatch(iceCandidateBatches, s, Head(iceTimers[s]).partnerId)
       IN  /\ iceCandidateBatches' = r.ice
           /\ emitted' = r.out
    /\ last' = Op("ice-timer", s, 0)
    /\ UNCHANGED <<now, conn, waitingQueue, matches, rateLimitMap, lastAccepted, heartbeatVars, v1Vars, callVars,
                   readVars, raceVars>>

\* time passes; a timer that is due runs before the clock moves on
MatchTick(d) ==
    /\ now + d <= MaxMatchTime
    /\ \A s \in Sockets : ~TimerDue(s)
    /\ now' = now + d
    /\ emitted' = <<>>
    /\ last' = Op("tick", d, 0)
    /\ UNCHANGED <<conn, waitingQueue, matches, rateLimitMap, lastAccepted, iceVars, heartbeatVars, v1Vars, callVars,
                   readVars, raceVars>>


(***************************************************************************)
(* RandomChatGateway (v2): connection health.  connectionMetrics is        *)
(* written by handleConnection, handleHeartbeat and handleDisconnect and   *)
(* read by the heartbeat sweep only; SpecMatch and SpecSignal leave it     *)
(* out, SpecHeartbeat tracks it with the complete lifecycle handlers.      *)
(***************************************************************************)
MaxHeartbeatTime == 150500

HEARTBEAT_CHECK_INTERVAL == 30000
STALE_CONNECTION_TIMEOUT == 90000

\* the clock of the health specification advances from sweep to sweep
HeartbeatTicks == {HEARTBEAT_CHECK_INTERVAL}

Tracked(s) == connectionMetrics[s] # Null

\* now - metrics.lastHeartbeat > STALE_CONNECTION_TIMEOUT
isStale(metrics, s, t) ==
    metrics[s] # Null /\ t - metrics[s] > STALE_CONNECTION_TIMEOUT

staleClients == {s \in Sockets : isStale(connectionMetrics, s, now)}

\* this.server.sockets.sockets.get(socketId): the lookup goes through the socket map
\* of the object injected as server, while the gateway's sockets belong to the
\* namespace random-chat; it finds the socket, finds nothing, or throws
SocketLookups == {"found", "undefined", "throws"}

\* handleDisconnect of each of the connections in S, one after the other
RECURSIVE disconnectAll(_, _)
disconnectAll(st, S) ==
    IF S = {} THEN st
    ELSE LET s == CHOOSE x \in S : \A y \in S : x <= y
             st1 == cleanupUser(st, s)
         IN  disconnectAll([st1 EXCEPT !.rl = [@ EXCEPT ![UserOf(s)] = Null]], S \ {s})

\* handleConnection, health tracking included
TrackedConnection(s) ==
    /\ conn[s] = "new"
    /\ conn' = [conn EXCEPT ![s] = "live"]
    /\ connectionMetrics' = [connectionMetrics EXCEPT ![s] = now]
    /\ emitted' = <<Ev(s, "connection-quality", 0)>>
    /\ last' = Op("connect", s, 0)
    /\ UNCHANGED <<now, sweepAt, v1Vars, waitingQueue, matches, rateLimitMap, lastAccepted, iceVars,
                   callVars, readVars, raceVars>>

\* @SubscribeMessage('heartbeat')
HandleHeartbeat(s) ==
    /\ conn[s] = "live"
    /\ IF Tracked(s)
       THEN /\ connectionMetrics' = [connectionMetrics EXCEPT ![s] = now]
            /\ emitted' = <<Ev(s, "heartbeat-ack", now)>>
       ELSE /\ emitted' = <<>>
            /\ UNCHANGED connectionMetrics
    /\ last' = Op("heartbeat", s, 0)
    /\ UNCHANGED <<now, sweepAt, v1Vars, conn, waitingQueue, matches, rateLimitMap, lastAccepted,
                   iceVars, callVars, readVars, raceVars>>

\* handleDisconnect, health tracking included
TrackedDisconnect(s) ==
    /\ conn[s] = "closed"
    /\ conn' = [conn EXCEPT ![s] = "gone"]
    /\ SetGateway(disconnectAll(GatewayState, {s}))
    /\ connectionMetrics' = [connectionMetrics EXCEPT ![s] = Null]
    /\ iceCandidateBatches' = cleanupIceBatch(iceCandidateBatches, s)
    /\ iceTimers' = cleanupIceTimer(iceTimers, iceCandidateBatches, s)
    /\ last' = Op("disconnect", s, Len(iceCandidateBatches[s].candidates))
    /\ UNCHANGED <<now, sweepAt, v1Vars, lastAccepted, callVars, readVars, raceVars>>

\* the setInterval callback: cleanupStaleConnections.  A socket that is found is
\* disconnected by the server, which runs handleDisconnect for it.
Sweep(lookup) ==
    /\ now = sweepAt
    /\ sweepAt' = sweepAt + HEARTBEAT_CHECK_INTERVAL
    /\ LET stale == staleClients
           reached == {s \in stale : conn[s] \in {"live", "closed"}}
       IN  IF stale = {} \/ lookup = "throws"
           THEN /\ emitted' = <<>>
                /\ UNCHANGED <<conn, waitingQueue, matches, rateLimitMap,
                               connectionMetrics, iceVars>>
           ELSE IF lookup = "undefined"
           THEN /\ connectionMetrics' =
                     [s \in Sockets |-> IF s \in stale THEN Null ELSE connectionMetrics[s]]
                /\ emitted' = <<>>
                /\ UNCHANGED <<conn, waitingQueue, matches, rateLimitMap, iceVars>>
           ELSE /\ conn' = [s \in Sockets |-> IF s \in reached THEN "gone" ELSE conn[s]]
                /\ SetGateway(disconnectAll(GatewayState, reached))
                /\ connectionMetrics' =
                     [s \in Sockets |-> IF s \in stale THEN Null ELSE connectionMetrics[s]]
                /\ iceCandidateBatches' =
                     [s \in Sockets |-> IF s \in reached THEN NoBatch
                                        ELSE iceCandidateBatches[s]]
                /\ iceTimers' = [s \in Sockets |-> IF s \in reached THEN <<>> ELSE iceTimers[s]]
    /\ last' = OpWith("sweep", 0, 0, staleClients)
    /\ UNCHANGED <<now, lastAccepted, v1Vars, callVars, readVars, raceVars>>

\* time passes up to the next sweep; a sweep that is due runs before the clock moves on
HeartbeatTick(d) ==
    /\ now < sweepAt
    /\ now + d <= MaxHeartbeatTime
    /\ now' = now + d
    /\ emitted' = <<>>
    /\ last' = Op("tick", d, 0)
    /\ UNCHANGED <<conn, waitingQueue, matches, rateLimitMap, lastAccepted, iceVars,
                   heartbeatVars, v1Vars, callVars, readVars, raceVars>>

(***************************************************************************)
(* RandomChatGateway v1: matchmaking that records each pairing in the      *)
(* durable store.  handleFindPartner is async: it links the pair, awaits   *)
(* prisma.randomVideoConnection.create, and announces the match when the   *)
(* write has returned; other handlers run while it is suspended.           *)
(***************************************************************************)
MaxRecords == 2
MaxPending == 2

V1State ==
    [queue |-> waitingQueue, matches |-> matches, active |-> activeConnections,
     records |-> connectionRecords, pending |-> pendingCreate, out |-> <<>>]

SetV1(st) ==
    /\ waitingQueue' = st.queue
    /\ matches' = st.matches
    /\ activeConnections' = st.active
    /\ connectionRecords' = st.records
    /\ pendingCreate' = st.pending
    /\ emitted' = st.out

\* cleanupUser (v1): the endedAt update is issued without waiting for it
cleanupUserV1(st, c) ==
    LET partnerId == st.matches[c]
        connectionId == st.active[c]
        s1 == [st EXCEPT !.queue = SeqRemove(@, c)]
        s2 == IF connectionId # Null
              THEN [s1 EXCEPT
                      !.records = [@ EXCEPT ![connectionId] = "ended"],
                      !.active = IF partnerId # NoSock
                                 THEN [@ EXCEPT ![c] = Null, ![partnerId] = Null]
                                 ELSE [@ EXCEPT ![c] = Null]]
              ELSE s1
    IN  IF partnerId # NoSock
        THEN [s2 EXCEPT !.out = Append(@, Ev(partnerId, "match-ended", 0)),
                        !.matches = [@ EXCEPT ![partnerId] = NoSock, ![c] = NoSock]]
        ELSE s2

\* handleFindPartner (v1) up to its await: a request of a matched or queued client
\* returns silently; a stale head of the queue is dropped and the handler retried
RECURSIVE handleFindPartnerV1(_, _)
handleFindPartnerV1(st, c) ==
    IF st.matches[c] # NoSock THEN st
    ELSE IF c \in Range(st.queue) THEN st
    ELSE IF Len(st.queue) > 0
    THEN LET partner == Head(st.queue)
             s1 == [st EXCEPT !.queue = Tail(@)]
         IN  IF conn[partner] # "live"
             THEN handleFindPartnerV1(s1, c)
             ELSE [s1 EXCEPT !.matches = linkMatch(@, c, partner),
                             !.pending = Append(@, <<c, partner>>)]
    ELSE [st EXCEPT !.queue = Append(@, c),
                    !.out = Append(@, Ev(c, "waiting-for-partner", 0))]

\* handleFindPartner (v1) after its await: the record ids are stored when the write
\* succeeded, the failure is logged otherwise; then both sides are told
abortOnCreateFailure(st, client, partner, created) ==
    IF created
    THEN [st EXCEPT
            !.records = Append(@, "open"),
            !.active = [@ EXCEPT ![client] = Len(st.records) + 1,
                                 ![partner] = Len(st.records) + 1],
            !.out = @ \o <<Ev(client, "match-found", 1), Ev(partner, "match-found", 2)>>]
    ELSE [st EXCEPT !.matches = [@ EXCEPT ![client] = NoSock, ![partner] = NoSock]]

resumeFindPartnerV1(st, client, partner, created) ==
    LET s1 == IF created
              THEN [st EXCEPT
                      !.records = Append(@, "open"),
                      !.active = [@ EXCEPT ![client] = Len(st.records) + 1,
                                           ![partner] = Len(st.records) + 1]]
              ELSE st
    IN  [s1 EXCEPT !.out = @ \o <<Ev(client, "match-found", 1),
                                  Ev(partner, "match-found", 2)>>]

\* the sequence q without its i-th element
RemoveAt(q, i) == SubSeq(q, 1, i - 1) \o SubSeq(q, i + 1, Len(q))

\* handleConnection (v1)
V1Connection(s) ==
    /\ conn[s] = "new"
    /\ conn' = [conn EXCEPT ![s] = "live"]
    /\ emitted' = <<>>
    /\ last' = Op("connect", s, 0)
    /\ UNCHANGED <<now, waitingQueue, matches, rateLimitMap, lastAccepted, iceVars,
                   heartbeatVars, v1Vars, callVars, readVars, raceVars>>

\* handleDisconnect (v1)
V1Disconnect(s) ==
    /\ conn[s] = "closed"
    /\ conn' = [conn EXCEPT ![s] = "gone"]
    /\ SetV1(cleanupUserV1(V1State, s))
    /\ last' = Op("disconnect", s, 0)
    /\ UNCHANGED <<now, rateLimitMap, lastAccepted, iceVars, heartbeatVars, callVars,
                   readVars, raceVars>>

\* @SubscribeMessage('find-partner') (v1), up to the await or to its return
V1FindPartner(c) ==
    /\ conn[c] = "live"
    /\ LET st == handleFindPartnerV1(V1State, c) IN
       /\ Len(st.pending) <= MaxPending
       /\ Len(st.records) + Len(st.pending) <= MaxRecords
       /\ SetV1(st)
    /\ last' = Op("find-partner", c, 0)
    /\ UNCHANGED <<now, conn, rateLimitMap, lastAccepted, iceVars, heartbeatVars, callVars,
                   readVars, raceVars>>

\* prisma.randomVideoConnection.create returns or throws, and the handler resumes
V1CreateReturns(i, created) ==
    /\ i \in 1..Len(pendingCreate)
    /\ LET client == pendingCreate[i][1]
           partner == pendingCreate[i][2]
           st == [V1State EXCEPT !.pending = RemoveAt(@, i)]
       IN  /\ SetV1(resumeFindPartnerV1(st, client, partner, created))
           /\ last' = Op(IF created THEN "created" ELSE "create-failed", client, partner)
    /\ UNCHANGED <<now, conn, rateLimitMap, lastAccepted, iceVars, heartbeatVars, callVars,
                   readVars, raceVars>>

\* @SubscribeMessage('leave-pool') (v1)
V1LeavePool(c) ==
    /\ conn[c] = "live"
    /\ LET st == cleanupUserV1(V1State, c) IN
       SetV1([st EXCEPT !.out = Append(@, Ev(c, "left-pool", 0))])
    /\ last' = Op("leave-pool", c, 0)
    /\ UNCHANGED <<now, conn, rateLimitMap, lastAccepted, iceVars, heartbeatVars, callVars,
                   readVars, raceVars>>

(***************************************************************************)
(* CallService: the durable Call / CallParticipant / CallEvent rows.       *)
(* Each operation is taken as one step (its awaits are sequential writes   *)
(* of one request).                                                        *)
(***************************************************************************)
NumCallUsers == 2
MaxCallEvents == 3
MaxCallTime == 44000

CallUsers == 1..NumCallUsers
\* a recipient id that names no User row
GhostUser == NumCallUsers + 1
\* every operation reads and writes the rows of one call only
CallIds == {1}
CallTicks == {42000, 42700}

CallTypes == {"AUDIO_1TO1", "VIDEO_1TO1", "AUDIO_GROUP", "VIDEO_GROUP"}
OneToOne == {"AUDIO_1TO1", "VIDEO_1TO1"}
GroupTypes == {"AUDIO_GROUP", "VIDEO_GROUP"}
CallStatuses == {"CALLING", "RINGING", "ACTIVE", "ENDED", "REJECTED", "MISSED", "FAILED"}
TerminalStatuses == {"ENDED", "REJECTED", "MISSED", "FAILED"}
ParticipantStatuses == {"INVITED", "RINGING", "JOINED", "LEFT", "REJECTED", "MISSED"}
CallEventTypes ==
    {"CALL_INITIATED", "CALL_RINGING", "CALL_ACCEPTED", "CALL_REJECTED", "CALL_ENDED",
     "PARTICIPANT_JOINED", "PARTICIPANT_LEFT", "PARTICIPANT_MUTED",
     "PARTICIPANT_UNMUTED", "VIDEO_ENABLED", "VIDEO_DISABLED", "CALL_FAILED"}

\* Call.duration is a nullable INTEGER
NoDuration == -1

NoCall ==
    [status |-> "NONE", callType |-> "NONE", initiatorId |-> 0,
     startedAt |-> Null, endedAt |-> Null, duration |-> NoDuration]

CallExists(c) == calls[c].status # "NONE"

IsParticipant(c, u) == participants[c][u] # "NONE"

\* number of CallEvent rows in the per-type counts ev of one call
countEvents(ev) ==
    ev["CALL_INITIATED"] + ev["CALL_RINGING"] + ev["CALL_ACCEPTED"]
       + ev["CALL_REJECTED"] + ev["CALL_ENDED"] + ev["PARTICIPANT_JOINED"]
       + ev["PARTICIPANT_LEFT"] + ev["PARTICIPANT_MUTED"] + ev["PARTICIPANT_UNMUTED"]
       + ev["VIDEO_ENABLED"] + ev["VIDEO_DISABLED"] + ev["CALL_FAILED"]

TotalEvents(c) == countEvents(callEvents[c])

\* the CallEvent table is append-only; the model stops appending at MaxCallEvents
EventsRoom(c, n) == TotalEvents(c) + n <= MaxCallEvents

logEvent(ev, c, t) == [ev EXCEPT ![c][t] = @ + 1]

\* prisma.call.create: the nested participants of initiateCall
initialParticipantsAllJoined(initiatorId, recipientIds) ==
    [u \in CallUsers |->
        IF u = initiatorId \/ u \in recipientIds THEN "JOINED" ELSE "NONE"]

initialParticipantsRecipientsOnly(initiatorId, recipientIds) ==
    [u \in CallUsers |-> IF u \in recipientIds THEN "INVITED" ELSE "NONE"]

initialParticipants(initiatorId, recipientIds) ==
    [u \in CallUsers |->
        IF u = initiatorId THEN "JOINED"
        ELSE IF u \in recipientIds THEN "INVITED"
        ELSE "NONE"]

\* acceptCall: the participant row becomes JOINED
acceptedParticipantKept(ps, u) == ps

acceptedParticipant(ps, u) == [ps EXCEPT ![u] = "JOINED"]

\* endCall: duration = Math.floor((endedAt - startedAt) / 1000)
durationMillis(startedAt, endedAt) == endedAt - startedAt

callDuration(startedAt, endedAt) == (endedAt - startedAt) \div 1000

\* endCall: updateMany where status = JOINED -> LEFT
leaveNobody(ps) == ps

leaveAllJoined(ps) == [u \in CallUsers |-> IF ps[u] = "JOINED" THEN "LEFT" ELSE ps[u]]

\* endCall on an existing call: the Call row, the participants, the CALL_ENDED event
endCallRows(c, cs, ps, ev) ==
    [calls |-> [cs EXCEPT ![c].status = "ENDED",
                          ![c].endedAt = now,
                          ![c].duration = callDuration(cs[c].startedAt, now)],
     participants |-> [ps EXCEPT ![c] = leaveAllJoined(@)],
     callEvents |-> logEvent(ev, c, "CALL_ENDED")]

FreeCallId == CHOOSE c \in CallIds : ~CallExists(c) /\ \A d \in CallIds : d < c => CallExists(d)

\* a request that throws: the exception leaves every row as it was
FailsWith(result, ids) ==
    /\ callResult' = result
    /\ last' = OpWith("failed", 0, 0, ids)
    /\ UNCHANGED <<now, calls, participants, callEvents, matchVars, readVars, raceVars>>

Fails(result) == FailsWith(result, {})

\* initiateCall with a recipient that names no user, or with the initiator among
\* the recipients (the unique index on (callId, userId) rejects the nested create)
initiateCallRejected(initiatorId, recipientIds) ==
    /\ GhostUser \in recipientIds \/ initiatorId \in recipientIds
    /\ FailsWith(IF GhostUser \in recipientIds THEN "BadRequest" ELSE "Conflict",
                 recipientIds \ CallUsers)

\* initiateCall(initiatorId, recipientIds, callType)
initiateCall(initiatorId, recipientIds, callType) ==
    /\ GhostUser \notin recipientIds
    /\ initiatorId \notin recipientIds
    /\ \E c \in CallIds : ~CallExists(c)
    /\ LET c == FreeCallId IN
       /\ calls' = [calls EXCEPT ![c] =
                       [status |-> "CALLING", callType |-> callType,
                        initiatorId |-> initiatorId, startedAt |-> now,
                        endedAt |-> Null, duration |-> NoDuration]]
       /\ participants' = [participants EXCEPT
                             ![c] = initialParticipants(initiatorId, recipientIds)]
       /\ callEvents' = logEvent(callEvents, c, "CALL_INITIATED")
       /\ callResult' = "ok"
       /\ last' = OpWith("initiateCall", c, initiatorId, recipientIds)
    /\ UNCHANGED <<now, matchVars, readVars, raceVars>>

\* markCallAsRinging(callId, userId)
markCallAsRinging(c, u) ==
    IF ~CallExists(c) THEN Fails("NotFound")
    ELSE
    /\ EventsRoom(c, 1)
    /\ participants' = [participants EXCEPT
                          ![c][u] = IF @ # "NONE" THEN "RINGING" ELSE @]
    /\ calls' = [calls EXCEPT
                   ![c].status = IF @ = "CALLING" THEN "RINGING" ELSE @]
    /\ callEvents' = logEvent(callEvents, c, "CALL_RINGING")
    /\ callResult' = "ok"
    /\ last' = Op("markCallAsRinging", c, u)
    /\ UNCHANGED <<now, matchVars, readVars, raceVars>>

\* acceptCall(callId, userId)
acceptCall(c, u) ==
    IF ~CallExists(c) THEN Fails("NotFound")
    ELSE IF ~IsParticipant(c, u) THEN Fails("BadRequest")
    ELSE
    /\ EventsRoom(c, 1)
    /\ participants' = [participants EXCEPT ![c] = acceptedParticipant(@, u)]
    /\ calls' = [calls EXCEPT ![c].status = "ACTIVE"]
    /\ callEvents' = logEvent(callEvents, c, "CALL_ACCEPTED")
    /\ callResult' = "ok"
    /\ last' = Op("acceptCall", c, u)
    /\ UNCHANGED <<now, matchVars, readVars, raceVars>>

\* rejectCall(callId, userId, reason)
rejectCallAnyType(c, u) ==
    IF ~CallExists(c) THEN Fails("NotFound")
    ELSE IF ~IsParticipant(c, u) THEN Fails("BadRequest")
    ELSE
    /\ EventsRoom(c, 1)
    /\ participants' = [participants EXCEPT ![c][u] = "REJECTED"]
    /\ calls' = [calls EXCEPT ![c].status = "REJECTED", ![c].endedAt = now]
    /\ callEvents' = logEvent(callEvents, c, "CALL_REJECTED")
    /\ callResult' = "ok"
    /\ last' = Op("rejectCall", c, u)
    /\ UNCHANGED <<now, matchVars, readVars, raceVars>>

rejectCall(c, u) ==
    IF ~CallExists(c) THEN Fails("NotFound")
    ELSE IF ~IsParticipant(c, u) THEN Fails("BadRequest")
    ELSE
    /\ EventsRoom(c, 1)
    /\ participants' = [participants EXCEPT ![c][u] = "REJECTED"]
    /\ calls' = IF calls[c].callType \in OneToOne
                THEN [calls EXCEPT ![c].status = "REJECTED", ![c].endedAt = now]
                ELSE calls
    /\ callEvents' = logEvent(callEvents, c, "CALL_REJECTED")
    /\ callResult' = "ok"
    /\ last' = Op("rejectCall", c, u)
    /\ UNCHANGED <<now, matchVars, readVars, raceVars>>

\* endCall(callId, userId)
endCall(c, u) ==
    IF ~CallExists(c) THEN Fails("NotFound")
    ELSE
    /\ EventsRoom(c, 1)
    /\ LET r == endCallRows(c, calls, participants, callEvents) IN
       /\ calls' = r.calls
       /\ participants' = r.participants
       /\ callEvents' = r.callEvents
    /\ callResult' = "ok"
    /\ last' = Op("endCall", c, u)
    /\ UNCHANGED <<now, matchVars, readVars, raceVars>>

\* joinGroupCall(callId, userId)
joinGroupCall(c, u) ==
    IF ~CallExists(c) THEN Fails("NotFound")
    ELSE IF calls[c].callType \notin GroupTypes
    THEN Fails("BadRequest")
    ELSE
    /\ EventsRoom(c, 1)
    /\ participants' = [participants EXCEPT ![c][u] = "JOINED"]
    /\ callEvents' = logEvent(callEvents, c, "PARTICIPANT_JOINED")
    /\ callResult' = "ok"
    /\ last' = Op("joinGroupCall", c, u)
    /\ UNCHANGED <<now, calls, matchVars, readVars, raceVars>>

\* leaveGroupCall(callId, userId): ends the call when nobody stays JOINED
leaveGroupCall(c, u) ==
    IF ~CallExists(c) THEN Fails("NotFound")
    ELSE IF ~IsParticipant(c, u) THEN Fails("BadRequest")
    ELSE
    /\ EventsRoom(c, 2)
    /\ LET ps == [participants EXCEPT ![c][u] = "LEFT"]
           ev == logEvent(callEvents, c, "PARTICIPANT_LEFT")
           activeParticipants == Cardinality({v \in CallUsers : ps[c][v] = "JOINED"})
       IN  IF activeParticipants = 0
           THEN LET r == endCallRows(c, calls, ps, ev) IN
                /\ calls' = r.calls
                /\ participants' = r.participants
                /\ callEvents' = r.callEvents
           ELSE /\ calls' = calls
                /\ participants' = ps
                /\ callEvents' = ev
    /\ callResult' = "ok"
    /\ last' = Op("leaveGroupCall", c, u)
    /\ UNCHANGED <<now, matchVars, readVars, raceVars>>

\* markCallAsMissed(callId, userId)
markCallAsMissed(c, u) ==
    IF ~CallExists(c) \/ ~IsParticipant(c, u)
    THEN Fails("NotFound")
    ELSE
    /\ participants' = [participants EXCEPT ![c][u] = "MISSED"]
    /\ calls' = IF calls[c].callType \in OneToOne
                THEN [calls EXCEPT ![c].status = "MISSED", ![c].endedAt = now]
                ELSE calls
    /\ callResult' = "ok"
    /\ last' = Op("markCallAsMissed", c, u)
    /\ UNCHANGED <<now, callEvents, matchVars, readVars, raceVars>>

\* the operations of CallService called directly: the gateway's maps and the
\* isMuted / isVideoOff columns stay as they are
InitiateCallRejected(initiatorId, recipientIds) ==
    initiateCallRejected(initiatorId, recipientIds) /\ UNCHANGED <<callGatewayVars, toggleVars>>

InitiateCall(initiatorId, recipientIds, callType) ==
    initiateCall(initiatorId, recipientIds, callType) /\ UNCHANGED <<callGatewayVars, toggleVars>>

MarkCallAsRinging(c, u) ==
    markCallAsRinging(c, u) /\ UNCHANGED <<callGatewayVars, toggleVars>>

AcceptCall(c, u) ==
    acceptCall(c, u) /\ UNCHANGED <<callGatewayVars, toggleVars>>

RejectCall(c, u) ==
    rejectCall(c, u) /\ UNCHANGED <<callGatewayVars, toggleVars>>

EndCall(c, u) ==
    endCall(c, u) /\ UNCHANGED <<callGatewayVars, toggleVars>>

JoinGroupCall(c, u) ==
    joinGroupCall(c, u) /\ UNCHANGED <<callGatewayVars, toggleVars>>

LeaveGroupCall(c, u) ==
    leaveGroupCall(c, u) /\ UNCHANGED <<callGatewayVars, toggleVars>>

MarkCallAsMissed(c, u) ==
    markCallAsMissed(c, u) /\ UNCHANGED <<callGatewayVars, toggleVars>>

CallTick(d) ==
    /\ now + d <= MaxCallTime
    /\ now' = now + d
    /\ last' = Op("tick", d, 0)
    /\ UNCHANGED <<matchVars, callVars, readVars, raceVars>>

(***************************************************************************)
(* CallService under concurrent requests.  Every method is a sequence of   *)
(* awaited store operations; a request in flight is a task whose pc names  *)
(* the store operation it issues next, and tasks interleave between them.  *)
(***************************************************************************)
NumCallTasks == 2
MaxRaceEvents == 4

CallTaskIds == 1..NumCallTasks
RaceOps == {"acceptCall", "rejectCall", "joinGroupCall", "leaveGroupCall"}
\* one call kind of each family
RaceCallTypes == {"VIDEO_1TO1", "AUDIO_GROUP"}

IdleTask == [op |-> "idle", pc |-> "idle", callId |-> 0, userId |-> 0, row |-> FALSE]

\* a task that is not in flight
AtRest(task) == task.pc \in {"idle", "done", "failed"}

SetTask(t, task) == callTasks' = [callTasks EXCEPT ![t] = task]

GoTo(t, pc) == SetTask(t, [callTasks[t] EXCEPT !.pc = pc])

RaceFrame == UNCHANGED <<now, callResult, toggleVars, callGatewayVars, readTasks,
                         matchVars, readVars>>

\* a client calls one of the methods; the request takes the first free task
RaceStart(t, op, c, u) ==
    /\ AtRest(callTasks[t])
    /\ \A t2 \in CallTaskIds : t2 < t => ~AtRest(callTasks[t2])
    /\ SetTask(t, [op |-> op, pc |-> "find", callId |-> c, userId |-> u, row |-> FALSE])
    /\ last' = Op("race-start", t, 0)
    /\ UNCHANGED <<calls, participants, callEvents>>
    /\ RaceFrame

\* prisma.call.findUnique with its participants, and the checks on what it returned
RaceFind(t) ==
    LET task == callTasks[t]
        c == task.callId
        u == task.userId
    IN  /\ task.pc = "find"
        /\ IF ~CallExists(c) THEN GoTo(t, "failed")
           ELSE IF task.op = "joinGroupCall"
           THEN IF calls[c].callType \notin GroupTypes THEN GoTo(t, "failed")
                ELSE SetTask(t, [task EXCEPT !.pc = "participant",
                                             !.row = IsParticipant(c, u)])
           ELSE IF ~IsParticipant(c, u) THEN GoTo(t, "failed")
           ELSE SetTask(t, [task EXCEPT !.pc = "participant", !.row = TRUE])
        /\ last' = Op("race-find", t, 0)
        /\ UNCHANGED <<calls, participants, callEvents>>
        /\ RaceFrame

\* the status each method writes to the caller's CallParticipant row
writtenStatus(op) ==
    IF op \in {"acceptCall", "joinGroupCall"} THEN "JOINED"
    ELSE IF op = "rejectCall" THEN "REJECTED"
    ELSE "LEFT"

\* prisma.callParticipant.update (create, for a join that found no row)
RaceParticipant(t) ==
    LET task == callTasks[t]
        c == task.callId
        u == task.userId
    IN  /\ task.pc = "participant"
        /\ IF ~task.row /\ IsParticipant(c, u)
           THEN GoTo(t, "failed") /\ UNCHANGED participants
           ELSE /\ participants' = [participants EXCEPT ![c][u] = writtenStatus(task.op)]
                /\ GoTo(t, IF task.op = "acceptCall" THEN "call"
                           ELSE IF task.op = "rejectCall" /\ calls[c].callType \in OneToOne
                           THEN "call"
                           ELSE "event")
        /\ last' = Op("race-participant", t, 0)
        /\ UNCHANGED <<calls, callEvents>>
        /\ RaceFrame

\* prisma.call.update of acceptCall (ACTIVE) and of rejectCall on a 1:1 call (REJECTED)
RaceCall(t) ==
    LET task == callTasks[t]
        c == task.callId
    IN  /\ task.pc = "call"
        /\ calls' = IF task.op = "acceptCall"
                    THEN [calls EXCEPT ![c].status = "ACTIVE"]
                    ELSE [calls EXCEPT ![c].status = "REJECTED", ![c].endedAt = now]
        /\ GoTo(t, "event")
        /\ last' = Op("race-call", t, 0)
        /\ UNCHANGED <<participants, callEvents>>
        /\ RaceFrame

loggedEvent(op) ==
    IF op = "acceptCall" THEN "CALL_ACCEPTED"
    ELSE IF op = "rejectCall" THEN "CALL_REJECTED"
    ELSE IF op = "joinGroupCall" THEN "PARTICIPANT_JOINED"
    ELSE "PARTICIPANT_LEFT"

\* prisma.callEvent.create
RaceEvent(t) ==
    LET task == callTasks[t]
        c == task.callId
    IN  /\ task.pc = "event"
        /\ TotalEvents(c) + 1 <= MaxRaceEvents
        /\ callEvents' = logEvent(callEvents, c, loggedEvent(task.op))
        /\ GoTo(t, IF task.op = "leaveGroupCall" THEN "count" ELSE "done")
        /\ last' = Op("race-event", t, 0)
        /\ UNCHANGED <<calls, participants>>
        /\ RaceFrame

\* leaveGroupCall: prisma.callParticipant.count of the JOINED rows; with none left it
\* calls endCall, whose findUnique returns the row of the call
RaceCount(t) ==
    LET task == callTasks[t]
        c == task.callId
        activeParticipants == Cardinality({v \in CallUsers : participants[c][v] = "JOINED"})
    IN  /\ task.pc = "count"
        /\ GoTo(t, IF activeParticipants = 0 THEN "end-call" ELSE "done")
        /\ last' = Op("race-count", t, 0)
        /\ UNCHANGED <<calls, participants, callEvents>>
        /\ RaceFrame

\* endCall: prisma.call.update
RaceEndCall(t) ==
    LET task == callTasks[t]
        c == task.callId
    IN  /\ task.pc = "end-call"
        /\ calls' = [calls EXCEPT ![c].status = "ENDED",
                                  ![c].endedAt = now,
                                  ![c].duration = callDuration(calls[c].startedAt, now)]
        /\ GoTo(t, "end-participants")
        /\ last' = Op("race-end-call", t, 0)
        /\ UNCHANGED <<participants, callEvents>>
        /\ RaceFrame

\* endCall: prisma.callParticipant.updateMany
RaceEndParticipants(t) ==
    LET task == callTasks[t]
        c == task.callId
    IN  /\ task.pc = "end-participants"
        /\ participants' = [participants EXCEPT ![c] = leaveAllJoined(@)]
        /\ GoTo(t, "end-event")
        /\ last' = Op("race-end-participants", t, 0)
        /\ UNCHANGED <<calls, callEvents>>
        /\ RaceFrame

\* endCall: prisma.callEvent.create
RaceEndEvent(t) ==
    LET task == callTasks[t]
        c == task.callId
    IN  /\ task.pc = "end-event"
        /\ TotalEvents(c) + 1 <= MaxRaceEvents
        /\ callEvents' = logEvent(callEvents, c, "CALL_ENDED")
        /\ GoTo(t, "done")
        /\ last' = Op("race-end-event", t, 0)
        /\ UNCHANGED <<calls, participants>>
        /\ RaceFrame

(***************************************************************************)
(* CallGateway (namespace /call): every handler is one step, the service   *)
(* operation it awaits included.  markCallAsRinging has no handler.        *)
(***************************************************************************)
NumCallSockets == 2
CallSockets == 1..NumCallSockets
NoUser == 0

\* rooms of the namespace: a user's room (client.join(userId)) and a call's room
UserRoom(u) == <<"user", u>>
CallRoom(c) == <<"call", c>>

NoActive == [present |-> FALSE, sockets |-> {}]

SocketOpen(s) == callSockets[s].state = "open"

\* activeCalls.set(call.id, new Set([client.id]))
activeSet(ac, c, s) == [ac EXCEPT ![c] = [present |-> TRUE, sockets |-> {s}]]

\* if (!activeCalls.has(callId)) set(callId, new Set()); get(callId).add(client.id)
activeAdd(ac, c, s) == [ac EXCEPT ![c] = [present |-> TRUE, sockets |-> @.sockets \cup {s}]]

\* activeCalls.delete(callId)
activeDelete(ac, c) == [ac EXCEPT ![c] = NoActive]

\* activeCalls.get(callId)?.delete(client.id)
activeRemove(ac, c, s) == [ac EXCEPT ![c].sockets = @ \ {s}]

disconnectLoneSocketOnly(ac, s) ==
    [c \in CallIds |-> IF Cardinality(ac[c].sockets) > 1
                       THEN ac[c] ELSE [ac[c] EXCEPT !.sockets = @ \ {s}]]

\* handleDisconnect: activeCalls.forEach(participants.delete(client.id))
activeDisconnect(ac, s) == [c \in CallIds |-> [ac[c] EXCEPT !.sockets = @ \ {s}]]

notifyAlways(result, events) == events

\* the statements after the awaited service call inside try: skipped when it throws
notifyRoom(result, events) == IF result = "ok" THEN events ELSE {}

\* if (!userId) return { error: 'User not identified' }
NotIdentified ==
    /\ Fails("NotIdentified")
    /\ callEmitted' = {}
    /\ UNCHANGED <<toggleVars, callSockets, activeCalls>>

\* toggleMute(callId, userId, isMuted)
toggleMute(c, u, muted) ==
    IF ~IsParticipant(c, u) THEN Fails("NotFound") /\ UNCHANGED toggleVars
    ELSE
    /\ EventsRoom(c, 1)
    /\ isMuted' = [isMuted EXCEPT ![c][u] = muted]
    /\ callEvents' = logEvent(callEvents, c,
                        IF muted THEN "PARTICIPANT_MUTED" ELSE "PARTICIPANT_UNMUTED")
    /\ callResult' = "ok"
    /\ last' = Op("toggleMute", c, u)
    /\ UNCHANGED <<now, calls, participants, isVideoOff, matchVars, readVars, raceVars>>

\* toggleVideo(callId, userId, isVideoOff)
toggleVideo(c, u, videoOff) ==
    IF ~IsParticipant(c, u) THEN Fails("NotFound") /\ UNCHANGED toggleVars
    ELSE
    /\ EventsRoom(c, 1)
    /\ isVideoOff' = [isVideoOff EXCEPT ![c][u] = videoOff]
    /\ callEvents' = logEvent(callEvents, c,
                        IF videoOff THEN "VIDEO_DISABLED" ELSE "VIDEO_ENABLED")
    /\ callResult' = "ok"
    /\ last' = Op("toggleVideo", c, u)
    /\ UNCHANGED <<now, calls, participants, isMuted, matchVars, readVars, raceVars>>

\* handleConnection
CallConnect(s) ==
    /\ callSockets[s].state = "new"
    /\ callSockets' = [callSockets EXCEPT ![s].state = "open"]
    /\ callEmitted' = {}
    /\ last' = Op("call-connect", 0, 0)
    /\ UNCHANGED <<now, calls, participants, callEvents, callResult, toggleVars,
                   activeCalls, matchVars, readVars, raceVars>>

\* handleIdentify (a connection identifies itself once)
HandleIdentify(s, u) ==
    /\ SocketOpen(s)
    /\ callSockets[s].userId = NoUser
    /\ callSockets' = [callSockets EXCEPT ![s].userId = u]
    /\ callEmitted' = {}
    /\ last' = Op("identify", 0, 0)
    /\ UNCHANGED <<now, calls, participants, callEvents, callResult, toggleVars,
                   activeCalls, matchVars, readVars, raceVars>>

\* handleDisconnect
CallDisconnect(s) ==
    /\ SocketOpen(s)
    /\ callSockets' = [callSockets EXCEPT ![s] = [state |-> "closed", userId |-> NoUser]]
    /\ activeCalls' = activeDisconnect(activeCalls, s)
    /\ callEmitted' = IF callSockets[s].userId = NoUser THEN {}
                      ELSE {Ev(CallRoom(c), "participant:disconnected", callSockets[s].userId) :
                               c \in {d \in CallIds : s \in activeCalls[d].sockets}}
    /\ last' = Op("call-disconnect", s, 0)
    /\ UNCHANGED <<now, calls, participants, callEvents, callResult, toggleVars,
                   matchVars, readVars, raceVars>>

\* handleInitiateCall, refused: the connection is not identified or the service throws
HandleInitiateCallRejected(s, recipientIds) ==
    /\ SocketOpen(s)
    /\ LET userId == callSockets[s].userId IN
       IF userId = NoUser THEN NotIdentified
       ELSE /\ initiateCallRejected(userId, recipientIds)
            /\ callEmitted' = notifyRoom(callResult',
                                 {Ev(UserRoom(r), "call:incoming", 0) : r \in recipientIds})
            /\ UNCHANGED <<toggleVars, callSockets, activeCalls>>

\* handleInitiateCall
HandleInitiateCall(s, recipientIds, callType) ==
    /\ SocketOpen(s)
    /\ callSockets[s].userId # NoUser
    /\ initiateCall(callSockets[s].userId, recipientIds, callType)
    /\ activeCalls' = activeSet(activeCalls, last'.a, s)
    /\ callEmitted' = notifyRoom(callResult',
                         {Ev(UserRoom(r), "call:incoming", last'.a) : r \in recipientIds})
    /\ UNCHANGED <<toggleVars, callSockets>>

\* the signaling events of a call
CallSignals == {"call:offer", "call:answer", "call:ice-candidate"}

\* this.server.to(targetUserId).emit(ev, {callId, fromUserId: client.data.userId, ...});
\* return { success: true }
relayCallSignal(s, c, targetUserId, ev) ==
    /\ callEmitted' = {Ev(UserRoom(targetUserId), ev, callSockets[s].userId)}
    /\ last' = OpWith(ev, c, targetUserId, {s})
    /\ UNCHANGED <<now, calls, participants, callEvents, callResult, toggleVars,
                   callSockets, activeCalls, matchVars, readVars, raceVars>>

\* handleOffer (call:offer)
HandleCallOffer(s, c, targetUserId) ==
    /\ SocketOpen(s)
    /\ relayCallSignal(s, c, targetUserId, "call:offer")

\* handleAnswer (call:answer)
HandleCallAnswer(s, c, targetUserId) ==
    /\ SocketOpen(s)
    /\ relayCallSignal(s, c, targetUserId, "call:answer")

\* handleIceCandidate (call:ice-candidate)
HandleCallIceCandidate(s, c, targetUserId) ==
    /\ SocketOpen(s)
    /\ relayCallSignal(s, c, targetUserId, "call:ice-candidate")

\* handleAcceptCall
HandleAcceptCall(s, c) ==
    /\ SocketOpen(s)
    /\ LET userId == callSockets[s].userId IN
       IF userId = NoUser THEN NotIdentified
       ELSE /\ acceptCall(c, userId)
            /\ activeCalls' = IF callResult' = "ok"
                              THEN activeAdd(activeCalls, c, s) ELSE activeCalls
            /\ callEmitted' = notifyRoom(callResult', {Ev(CallRoom(c), "call:accepted", userId)})
            /\ UNCHANGED <<toggleVars, callSockets>>

\* handleRejectCall
HandleRejectCall(s, c) ==
    /\ SocketOpen(s)
    /\ LET userId == callSockets[s].userId IN
       IF userId = NoUser THEN NotIdentified
       ELSE /\ rejectCall(c, userId)
            /\ callEmitted' = notifyRoom(callResult', {Ev(CallRoom(c), "call:rejected", userId)})
            /\ UNCHANGED <<toggleVars, callSockets, activeCalls>>

\* handleEndCall
HandleEndCall(s, c) ==
    /\ SocketOpen(s)
    /\ LET userId == callSockets[s].userId IN
       IF userId = NoUser THEN NotIdentified
       ELSE /\ endCall(c, userId)
            /\ activeCalls' = IF callResult' = "ok"
                              THEN activeDelete(activeCalls, c) ELSE activeCalls
            /\ callEmitted' = notifyRoom(callResult', {Ev(CallRoom(c), "call:ended", userId)})
            /\ UNCHANGED <<toggleVars, callSockets>>

\* handleToggleMute
HandleToggleMute(s, c, muted) ==
    /\ SocketOpen(s)
    /\ LET userId == callSockets[s].userId IN
       IF userId = NoUser THEN NotIdentified
       ELSE /\ toggleMute(c, userId, muted)
            /\ callEmitted' = notifyRoom(callResult',
                                 {Ev(CallRoom(c), "call:participant-muted", userId)})
            /\ UNCHANGED <<callSockets, activeCalls>>

\* handleToggleVideo
HandleToggleVideo(s, c, videoOff) ==
    /\ SocketOpen(s)
    /\ LET userId == callSockets[s].userId IN
       IF userId = NoUser THEN NotIdentified
       ELSE /\ toggleVideo(c, userId, videoOff)
            /\ callEmitted' = notifyRoom(callResult',
                                 {Ev(CallRoom(c), "call:participant-video-toggled", userId)})
            /\ UNCHANGED <<callSockets, activeCalls>>

\* handleJoinGroupCall
HandleJoinGroupCall(s, c) ==
    /\ SocketOpen(s)
    /\ LET userId == callSockets[s].userId IN
       IF userId = NoUser THEN NotIdentified
       ELSE /\ joinGroupCall(c, userId)
            /\ activeCalls' = IF callResult' = "ok"
                              THEN activeAdd(activeCalls, c, s) ELSE activeCalls
            /\ callEmitted' = notifyRoom(callResult',
                                 {Ev(CallRoom(c), "group-call:participant-joined", userId)})
            /\ UNCHANGED <<toggleVars, callSockets>>

\* handleLeaveGroupCall
HandleLeaveGroupCall(s, c) ==
    /\ SocketOpen(s)
    /\ LET userId == callSockets[s].userId IN
       IF userId = NoUser THEN NotIdentified
       ELSE /\ leaveGroupCall(c, userId)
            /\ activeCalls' = IF callResult' = "ok"
                              THEN activeRemove(activeCalls, c, s) ELSE activeCalls
            /\ callEmitted' = notifyRoom(callResult',
                                 {Ev(CallRoom(c), "group-call:participant-left", userId)})
            /\ UNCHANGED <<toggleVars, callSockets>>

\* handleMissedCall
HandleMissedCall(s, c) ==
    /\ SocketOpen(s)
    /\ LET userId == callSockets[s].userId IN
       IF userId = NoUser THEN NotIdentified
       ELSE /\ markCallAsMissed(c, userId)
            /\ callEmitted' = {}
            /\ UNCHANGED <<toggleVars, callSockets, activeCalls>>

(***************************************************************************)
(* ChatService: delivery and read tracking of one conversation.  Every     *)
(* operation is one step.  The gateway passes the userId of the payload    *)
(* to the service unchecked, so the marking operations are open to every   *)
(* user, members of the conversation or not.                               *)
(***************************************************************************)
NumReadUsers == 3
MaxMessages == 2
MaxReadTicks == 1
MaxReadRows == 2

ReadUsers == 1..NumReadUsers
MessageIds == 1..MaxMessages

MessageExists(m) == m \in 1..Len(messages)
HasRow(mr, m, u) == <<m, u>> \in DOMAIN mr

\* prisma upsert on the unique key
upsertRow(rows, key, row) ==
    [k \in DOMAIN rows \cup {key} |-> IF k = key THEN row ELSE rows[k]]

deliveredUpsertClearsRead(mr, m, u, t) ==
    upsertRow(mr, <<m, u>>, [deliveredAt |-> t, readAt |-> Null])

\* the upsert of markMessageAsDelivered
deliveredUpsert(mr, m, u, t) ==
    IF HasRow(mr, m, u)
    THEN upsertRow(mr, <<m, u>>, [mr[<<m, u>>] EXCEPT !.deliveredAt = t])
    ELSE upsertRow(mr, <<m, u>>, [deliveredAt |-> t, readAt |-> Null])

readUpsertReadAtOnly(mr, m, u, t) ==
    IF HasRow(mr, m, u)
    THEN upsertRow(mr, <<m, u>>, [mr[<<m, u>>] EXCEPT !.readAt = t])
    ELSE upsertRow(mr, <<m, u>>, [deliveredAt |-> Null, readAt |-> t])

\* the upsert of markMessageAsRead and of markConversationAsRead
readUpsert(mr, m, u, t) ==
    IF HasRow(mr, m, u)
    THEN upsertRow(mr, <<m, u>>, [mr[<<m, u>>] EXCEPT !.readAt = t])
    ELSE upsertRow(mr, <<m, u>>, [deliveredAt |-> t, readAt |-> t])

\* unreadMessages.map(upsert) under Promise.all
RECURSIVE readUpsertAll(_, _, _, _)
readUpsertAll(mr, M, u, t) ==
    IF M = {} THEN mr
    ELSE LET m == CHOOSE x \in M : TRUE
         IN readUpsertAll(readUpsert(mr, m, u, t), M \ {m}, u, t)

\* messages of the conversation not sent by userId
notSentBy(msgs, userId) == {m \in 1..Len(msgs) : msgs[m].senderId # userId}

\* findFirst orderBy createdAt desc: any message with the greatest createdAt
latestMessages(msgs, userId) ==
    {m \in notSentBy(msgs, userId) :
        \A m2 \in notSentBy(msgs, userId) : msgs[m2].createdAt <= msgs[m].createdAt}

\* findMany createdAt lte latestMessage.createdAt
unreadMessages(msgs, userId, latest) ==
    {m \in notSentBy(msgs, userId) : msgs[m].createdAt <= msgs[latest].createdAt}

\* getMessageStatus: status of one recipient
recipientStatus(mr, m, u) ==
    IF HasRow(mr, m, u) /\ mr[<<m, u>>].readAt # Null THEN "read"
    ELSE IF HasRow(mr, m, u) /\ mr[<<m, u>>].deliveredAt # Null THEN "delivered"
    ELSE "sent"

\* message.reads.filter(r => r.userId !== userId)
othersRead(mr, m, userId) == {k \in DOMAIN mr : k[1] = m /\ k[2] # userId}

messageStatusAnyRead(mr, msgs, m, userId) ==
    IF \E k \in DOMAIN mr : k[1] = m /\ k[2] # userId /\ mr[k].readAt # Null THEN "read"
    ELSE IF \E k \in DOMAIN mr : k[1] = m /\ k[2] # userId THEN "delivered"
    ELSE "sent"

\* getMessagesWithReadStatus: status of message m as shown to userId
messageStatus(mr, msgs, m, userId) ==
    IF msgs[m].senderId = userId
    THEN LET others == othersRead(mr, m, userId)
             allRead == \A k \in others : mr[k].readAt # Null
             anyDelivered == \E k \in others : mr[k].deliveredAt # Null
         IN IF allRead /\ others # {} THEN "read"
            ELSE IF anyDelivered THEN "delivered"
            ELSE "sent"
    ELSE recipientStatus(mr, m, userId)

\* getUnreadCount
getUnreadCountNotBefore(msgs, cr, userId) ==
    LET lastReadAt == IF userId \in DOMAIN cr THEN cr[userId].lastReadAt ELSE 0
    IN Cardinality({m \in notSentBy(msgs, userId) : msgs[m].createdAt >= lastReadAt})

getUnreadCount(msgs, cr, userId) ==
    LET lastReadAt == IF userId \in DOMAIN cr THEN cr[userId].lastReadAt ELSE 0
    IN Cardinality({m \in notSentBy(msgs, userId) : msgs[m].createdAt > lastReadAt})

\* createPrivateConversation(user1Id, user2Id)
CreatePrivateConversation(user1Id, user2Id) ==
    /\ conversationUsers = {}
    /\ user1Id # user2Id
    /\ conversationUsers' = {user1Id, user2Id}
    /\ readResult' = "row"
    /\ last' = Op("createPrivateConversation", user1Id, user2Id)
    /\ chatEmitted' = <<>>
    /\ UNCHANGED <<now, messages, messageRead, conversationRead, matchVars, callVars, raceVars>>

\* createGroup(name, userIds, ownerId)
CreateGroup(userIds) ==
    /\ conversationUsers = {}
    /\ userIds # {}
    /\ conversationUsers' = userIds
    /\ readResult' = "row"
    /\ last' = OpWith("createGroup", 0, 0, userIds)
    /\ chatEmitted' = <<>>
    /\ UNCHANGED <<now, messages, messageRead, conversationRead, matchVars, callVars, raceVars>>

\* the MessageRead table stays within the bound of the model
RowsRoom == Cardinality(DOMAIN messageRead') <= MaxReadRows

\* rooms of the chat namespace: the requesting client, the conversation room;
\* a user's own room is named by the user id
ClientRoom == -1
ConversationRoom == 0

neverOwnMessage(msgs, m, userId) == FALSE

\* message.senderId === userId
ownMessage(msgs, m, userId) == msgs[m].senderId = userId

\* the keys an upsert of user u over the messages M creates (no row yet)
createdRows(mr, M, u) == {m \in M : ~HasRow(mr, m, u)}

\* a marking request that wrote nothing: the service threw ("error", which the
\* gateway reports to the client) or returned null (the gateway stays silent)
Unwritten(result) ==
    /\ readResult' = result
    /\ chatEmitted' = IF result = "error" THEN <<Ev(ClientRoom, "error", 0)>> ELSE <<>>
    /\ last' = Op("unwritten", 0, 0)
    /\ UNCHANGED <<now, conversationUsers, messages, messageRead, conversationRead,
                   matchVars, callVars, raceVars>>

\* ChatGateway.handleMessage: send-message
SendMessage(senderId) ==
    /\ Len(messages) < MaxMessages
    /\ IF senderId \notin conversationUsers
       THEN Unwritten("error")
       ELSE /\ messages' = Append(messages, [senderId |-> senderId, createdAt |-> now])
            /\ readResult' = "row"
            /\ chatEmitted' = <<Ev(ConversationRoom, "message", Len(messages'))>>
            /\ last' = Op("send-message", Len(messages'), senderId)
            /\ UNCHANGED <<now, conversationUsers, messageRead, conversationRead,
                           matchVars, callVars, raceVars>>

\* ChatGateway.handleMessageDelivered -> markMessageAsDelivered(messageId, userId)
MarkMessageAsDelivered(m, u) ==
    IF ~MessageExists(m) THEN Unwritten("error")
    ELSE IF ownMessage(messages, m, u) THEN Unwritten("null")
    ELSE /\ messageRead' = deliveredUpsert(messageRead, m, u, now)
         /\ RowsRoom
         /\ readResult' = "row"
         /\ chatEmitted' = <<Ev(messages[m].senderId, "message-delivery-update", m)>>
         /\ last' = Op("markMessageAsDelivered", m, u)
         /\ UNCHANGED <<now, conversationUsers, messages, conversationRead,
                        matchVars, callVars, raceVars>>

\* ChatGateway.handleMessageRead -> markMessageAsRead(messageId, userId)
MarkMessageAsRead(m, u) ==
    IF ~MessageExists(m) THEN Unwritten("error")
    ELSE IF ownMessage(messages, m, u) THEN Unwritten("null")
    ELSE /\ messageRead' = readUpsert(messageRead, m, u, now)
         /\ RowsRoom
         /\ readResult' = "row"
         /\ chatEmitted' = <<Ev(messages[m].senderId, "message-read-update", m)>>
         /\ last' = OpWith("markMessageAsRead", m, u, createdRows(messageRead, {m}, u))
         /\ UNCHANGED <<now, conversationUsers, messages, conversationRead,
                        matchVars, callVars, raceVars>>

\* ChatGateway.handleConversationRead -> markConversationAsRead(conversationId, userId)
MarkConversationAsRead(u) ==
    IF latestMessages(messages, u) = {}
    THEN /\ readResult' = "null"
         /\ chatEmitted' = <<Ev(ConversationRoom, "conversation-read-update", u)>>
         /\ last' = Op("markConversationAsRead", 0, u)
         /\ UNCHANGED <<now, conversationUsers, messages, messageRead, conversationRead,
                        matchVars, callVars, raceVars>>
    ELSE \E latestMessage \in latestMessages(messages, u) :
         LET unread == unreadMessages(messages, u, latestMessage) IN
         /\ messageRead' = readUpsertAll(messageRead, unread, u, now)
         /\ RowsRoom
         /\ conversationRead' = upsertRow(conversationRead, u,
                               [lastReadMessageId |-> latestMessage,
                                lastReadAt |-> now])
         /\ readResult' = "row"
         /\ chatEmitted' = <<Ev(ConversationRoom, "conversation-read-update", u)>>
         /\ last' = OpWith("markConversationAsRead", latestMessage, u,
                           createdRows(messageRead, unread, u))
         /\ UNCHANGED <<now, conversationUsers, messages, matchVars, callVars, raceVars>>

\* markConversationAsRead when a write is refused by the database (the
\* connection drops, a statement times out): the upserts run one by one outside
\* any transaction, so those in `written` are already committed when
\* Promise.all or the ConversationRead upsert rejects
MarkConversationAsReadFails(u, written) ==
    /\ latestMessages(messages, u) # {}
    /\ \E latestMessage \in latestMessages(messages, u) :
         written \subseteq unreadMessages(messages, u, latestMessage)
    /\ messageRead' = readUpsertAll(messageRead, written, u, now)
    /\ RowsRoom
    /\ readResult' = "error"
    /\ chatEmitted' = <<Ev(ClientRoom, "error", 0)>>
    /\ last' = Op("markConversationAsRead", 0, 0)
    /\ UNCHANGED <<now, conversationUsers, messages, conversationRead,
                   matchVars, callVars, raceVars>>

(***************************************************************************)
(* markConversationAsRead under concurrent sends: the method is a findFirst,*)
(* a findMany, the MessageRead upserts and the ConversationRead upsert,    *)
(* each awaited; messages can be sent between them.                        *)
(***************************************************************************)
IdleRead == [pc |-> "idle", latest |-> 0, unread |-> {}]

ReadFrame == UNCHANGED <<now, conversationUsers, messages, readResult, chatEmitted,
                         callTasks, matchVars, callVars>>

\* conversation-read arrives: ChatGateway.handleConversationRead calls the service
ReadStart(u) ==
    /\ readTasks[u].pc = "idle"
    /\ readTasks' = [readTasks EXCEPT ![u].pc = "latest"]
    /\ last' = Op("read-start", 0, u)
    /\ UNCHANGED <<messageRead, conversationRead>>
    /\ ReadFrame

\* prisma.message.findFirst: the latest message of another user, or return null
ReadLatest(u) ==
    /\ readTasks[u].pc = "latest"
    /\ IF latestMessages(messages, u) = {}
       THEN readTasks' = [readTasks EXCEPT ![u] = IdleRead]
       ELSE \E latestMessage \in latestMessages(messages, u) :
               readTasks' = [readTasks EXCEPT ![u] =
                               [pc |-> "unread", latest |-> latestMessage, unread |-> {}]]
    /\ last' = Op("read-latest", 0, u)
    /\ UNCHANGED <<messageRead, conversationRead>>
    /\ ReadFrame

\* prisma.message.findMany: the messages up to latestMessage.createdAt
ReadUnread(u) ==
    /\ readTasks[u].pc = "unread"
    /\ readTasks' = [readTasks EXCEPT
                       ![u].pc = "upserts",
                       ![u].unread = unreadMessages(messages, u, readTasks[u].latest)]
    /\ last' = Op("read-unread", 0, u)
    /\ UNCHANGED <<messageRead, conversationRead>>
    /\ ReadFrame

\* Promise.all of the MessageRead upserts
ReadUpserts(u) ==
    /\ readTasks[u].pc = "upserts"
    /\ messageRead' = readUpsertAll(messageRead, readTasks[u].unread, u, now)
    /\ RowsRoom
    /\ readTasks' = [readTasks EXCEPT ![u].pc = "conversation"]
    /\ last' = Op("read-upserts", 0, u)
    /\ UNCHANGED conversationRead
    /\ ReadFrame

\* prisma.conversationRead.upsert with lastReadAt = new Date()
ReadConversation(u) ==
    /\ readTasks[u].pc = "conversation"
    /\ conversationRead' = upsertRow(conversationRead, u,
                              [lastReadMessageId |-> readTasks[u].latest,
                               lastReadAt |-> now])
    /\ readTasks' = [readTasks EXCEPT ![u] = IdleRead]
    /\ last' = Op("read-conversation", readTasks[u].latest, u)
    /\ UNCHANGED messageRead
    /\ ReadFrame

ReadTick ==
    /\ now < StartTime + MaxReadTicks
    /\ now' = now + 1
    /\ last' = Op("tick", 1, 0)
    /\ UNCHANGED <<matchVars, callVars, readVars, raceVars>>

(***************************************************************************)
(* Initial state: nothing connected, empty maps, empty durable store       *)
(***************************************************************************)
Init ==
    /\ now = StartTime
    /\ last = Op("init", 0, 0)
    /\ conn = [s \in Sockets |-> "new"]
    /\ waitingQueue = <<>>
    /\ matches = [s \in Sockets |-> NoSock]
    /\ rateLimitMap = [u \in MatchUsers |-> Null]
    /\ lastAccepted = [u \in MatchUsers |-> Null]
    /\ connectionMetrics = [s \in Sockets |-> Null]
    /\ activeConnections = [s \in Sockets |-> Null]
    /\ connectionRecords = <<>>
    /\ pendingCreate = <<>>
    /\ callTasks = [t \in CallTaskIds |-> IdleTask]
    /\ readTasks = [u \in ReadUsers |-> IdleRead]
    /\ sweepAt = StartTime + HEARTBEAT_CHECK_INTERVAL
    /\ emitted = <<>>
    /\ iceCandidateBatches = [s \in Sockets |-> NoBatch]
    /\ iceTimers = [s \in Sockets |-> <<>>]
    /\ calls = [c \in CallIds |-> NoCall]
    /\ participants = [c \in CallIds |-> [u \in CallUsers |-> "NONE"]]
    /\ callEvents = [c \in CallIds |-> [t \in CallEventTypes |-> 0]]
    /\ callResult = "none"
    /\ isMuted = [c \in CallIds |-> [u \in CallUsers |-> FALSE]]
    /\ isVideoOff = [c \in CallIds |-> [u \in CallUsers |-> FALSE]]
    /\ callSockets = [s \in CallSockets |-> [state |-> "new", userId |-> NoUser]]
    /\ activeCalls = [c \in CallIds |-> NoActive]
    /\ callEmitted = {}
    /\ conversationUsers = {}
    /\ messages = <<>>
    /\ messageRead = <<>>
    /\ conversationRead = <<>>
    /\ readResult = "none"
    /\ chatEmitted = <<>>

NextMatch ==
    \/ \E s \in Sockets : HandleConnection(s)
    \/ \E s \in Sockets : TransportClose(s)
    \/ \E s \in Sockets : HandleDisconnect(s)
    \/ \E s \in Sockets : FindPartner(s)
    \/ \E s \in Sockets : LeavePool(s)
    \/ \E d \in MatchTicks : MatchTick(d)

SpecMatch == Init /\ [][NextMatch]_vars

\* matchmaking together with the WebRTC signaling relay
NextSignal ==
    \/ NextMatch
    \/ \E s \in Sockets : HandleOffer(s)
    \/ \E s \in Sockets : HandleAnswer(s)
    \/ \E s \in IceSenders : HandleIceCandidate(s)
    \/ \E s \in Sockets : IceTimer(s)

SpecSignal == Init /\ [][NextSignal]_vars

\* connection health: lifecycle, heartbeats and the periodic sweep
NextHeartbeat ==
    \/ \E s \in Sockets : TrackedConnection(s)
    \/ \E s \in Sockets : HandleHeartbeat(s)
    \/ \E s \in Sockets : TransportClose(s)
    \/ \E s \in Sockets : TrackedDisconnect(s)
    \/ \E lookup \in SocketLookups : Sweep(lookup)
    \/ \E d \in HeartbeatTicks : HeartbeatTick(d)

SpecHeartbeat == Init /\ [][NextHeartbeat]_vars

\* the persistence-backed gateway
NextMatchV1 ==
    \/ \E s \in Sockets : V1Connection(s)
    \/ \E s \in Sockets : TransportClose(s)
    \/ \E s \in Sockets : V1Disconnect(s)
    \/ \E c \in Sockets : V1FindPartner(c)
    \/ \E i \in 1..MaxPending, created \in BOOLEAN : V1CreateReturns(i, created)
    \/ \E c \in Sockets : V1LeavePool(c)

SpecMatchV1 == Init /\ [][NextMatchV1]_vars

NextCall ==
    \/ \E i \in CallUsers, R \in SUBSET (CallUsers \cup {GhostUser}) :
          InitiateCallRejected(i, R)
    \/ \E i \in CallUsers : \E R \in SUBSET (CallUsers \ {i}), t \in CallTypes :
          InitiateCall(i, R, t)
    \/ \E c \in CallIds, u \in CallUsers : MarkCallAsRinging(c, u)
    \/ \E c \in CallIds, u \in CallUsers : AcceptCall(c, u)
    \/ \E c \in CallIds, u \in CallUsers : RejectCall(c, u)
    \/ \E c \in CallIds, u \in CallUsers : EndCall(c, u)
    \/ \E c \in CallIds, u \in CallUsers : JoinGroupCall(c, u)
    \/ \E c \in CallIds, u \in CallUsers : LeaveGroupCall(c, u)
    \/ \E c \in CallIds, u \in CallUsers : MarkCallAsMissed(c, u)
    \/ \E d \in CallTicks : CallTick(d)

SpecCall == Init /\ [][NextCall]_vars

\* CallService with requests that interleave at their awaits
NextCallRace ==
    \/ \E i \in CallUsers : \E R \in SUBSET (CallUsers \ {i}), ct \in RaceCallTypes :
          InitiateCall(i, R, ct)
    \/ \E t \in CallTaskIds, op \in RaceOps, c \in CallIds, u \in CallUsers :
          RaceStart(t, op, c, u)
    \/ \E t \in CallTaskIds : RaceFind(t)
    \/ \E t \in CallTaskIds : RaceParticipant(t)
    \/ \E t \in CallTaskIds : RaceCall(t)
    \/ \E t \in CallTaskIds : RaceEvent(t)
    \/ \E t \in CallTaskIds : RaceCount(t)
    \/ \E t \in CallTaskIds : RaceEndCall(t)
    \/ \E t \in CallTaskIds : RaceEndParticipants(t)
    \/ \E t \in CallTaskIds : RaceEndEvent(t)

SpecCallRace == Init /\ [][NextCallRace]_vars

NextCallGateway ==
    \/ \E s \in CallSockets : CallConnect(s)
    \/ \E s \in CallSockets, u \in CallUsers : HandleIdentify(s, u)
    \/ \E s \in CallSockets : CallDisconnect(s)
    \/ \E s \in CallSockets, R \in SUBSET (CallUsers \cup {GhostUser}) :
          HandleInitiateCallRejected(s, R)
    \/ \E s \in CallSockets, R \in SUBSET CallUsers, t \in CallTypes :
          HandleInitiateCall(s, R, t)
    \/ \E s \in CallSockets, c \in CallIds : HandleAcceptCall(s, c)
    \/ \E s \in CallSockets, c \in CallIds : HandleRejectCall(s, c)
    \/ \E s \in CallSockets, c \in CallIds : HandleEndCall(s, c)
    \/ \E s \in CallSockets, c \in CallIds, b \in BOOLEAN : HandleToggleMute(s, c, b)
    \/ \E s \in CallSockets, c \in CallIds, b \in BOOLEAN : HandleToggleVideo(s, c, b)
    \/ \E s \in CallSockets, c \in CallIds : HandleJoinGroupCall(s, c)
    \/ \E s \in CallSockets, c \in CallIds : HandleLeaveGroupCall(s, c)
    \/ \E s \in CallSockets, c \in CallIds : HandleMissedCall(s, c)

SpecCallGateway == Init /\ [][NextCallGateway]_vars

\* CallGateway: connections, identification, call set-up and the signaling relay
NextCallSignal ==
    \/ \E s \in CallSockets : CallConnect(s)
    \/ \E s \in CallSockets, u \in CallUsers : HandleIdentify(s, u)
    \/ \E s \in CallSockets : CallDisconnect(s)
    \/ \E s \in CallSockets, R \in SUBSET CallUsers, t \in CallTypes :
          HandleInitiateCall(s, R, t)
    \/ \E s \in CallSockets, c \in CallIds : HandleAcceptCall(s, c)
    \/ \E s \in CallSockets, c \in CallIds, u \in CallUsers : HandleCallOffer(s, c, u)
    \/ \E s \in CallSockets, c \in CallIds, u \in CallUsers : HandleCallAnswer(s, c, u)
    \/ \E s \in CallSockets, c \in CallIds, u \in CallUsers :
          HandleCallIceCandidate(s, c, u)

SpecCallSignal == Init /\ [][NextCallSignal]_vars

NextRead ==
    \/ \E u1, u2 \in ReadUsers : CreatePrivateConversation(u1, u2)
    \/ \E U \in SUBSET ReadUsers : CreateGroup(U)
    \/ \E u \in ReadUsers : SendMessage(u)
    \/ \E m \in MessageIds, u \in ReadUsers : MarkMessageAsDelivered(m, u)
    \/ \E m \in MessageIds, u \in ReadUsers : MarkMessageAsRead(m, u)
    \/ \E u \in ReadUsers : MarkConversationAsRead(u)
    \/ \E u \in ReadUsers, W \in SUBSET MessageIds : MarkConversationAsReadFails(u, W)
    \/ ReadTick

SpecRead == Init /\ [][NextRead]_vars

\* markConversationAsRead interleaved with sends
NextReadRace ==
    \/ \E u1, u2 \in ReadUsers : CreatePrivateConversation(u1, u2)
    \/ \E u \in ReadUsers : SendMessage(u)
    \/ \E u \in ReadUsers : ReadStart(u)
    \/ \E u \in ReadUsers : ReadLatest(u)
    \/ \E u \in ReadUsers : ReadUnread(u)
    \/ \E u \in ReadUsers : ReadUpserts(u)
    \/ \E u \in ReadUsers : ReadConversation(u)
    \/ ReadTick

SpecReadRace == Init /\ [][NextReadRace]_vars

(***************************************************************************)
(* Matchmaking claims                                                      *)
(***************************************************************************)
Matched(s) == matches[s] # NoSock

\* the request of c passes the rate limit and the already-matched / already-queued guards
Accepted(c) ==
    /\ ~rateLimited(rateLimitMap, UserOf(c), now)
    /\ ~Matched(c)
    /\ c \notin Range(waitingQueue)

EmittedTo(c, evs) == \E i \in 1..Len(emitted) : emitted[i].to = c /\ emitted[i].ev \in evs

\* C1: the match map is symmetric: matches[A] = B implies A # B and matches[B] = A,
\* after any sequence of find-partner, leave-pool and disconnect events.
C1_MatchSymmetric ==
    \A a \in Sockets :
        Matched(a) => /\ matches[a] # a
                      /\ matches[matches[a]] = a

\* a pair is still linked right after another connection of the run was cleaned up
C1_Witness ==
    /\ last.op \in {"leave-pool", "disconnect"}
    /\ \E a \in Sockets : Matched(a)
    /\ \E g \in Sockets : conn[g] = "gone"

\* C2: no connection is both an entry of the waiting pool and a key of the match map.
C2_PoolDisjointFromMatches ==
    \A s \in Range(waitingQueue) : ~Matched(s)

\* a pair is linked while a third connection waits in the pool
C2_Witness ==
    /\ Len(waitingQueue) > 0
    /\ \E a \in Sockets : Matched(a)

C4_StaleRetryInvisible ==
    [][\A c \in Sockets :
          ( /\ last'.op = "find-partner" /\ last'.a = c
            /\ Accepted(c)
            /\ Len(waitingQueue) > 0
            /\ conn[Head(waitingQueue)] # "live" )
          => /\ (matches'[c] # NoSock \/ c \in Range(waitingQueue'))
             /\ Head(waitingQueue) \notin Range(waitingQueue')
             /\ \A i \in 1..Len(emitted') :
                   emitted'[i].to = c => emitted'[i].ev \notin {"rate-limited", "error"}]_vars

(***************************************************************************)
(* Call coordinator claims                                                 *)
(***************************************************************************)
CallOk(op, c) == last.op = op /\ last.a = c /\ callResult = "ok"

\* C5: endCall applied twice in a row leaves the Call row as the first call left it
\* (status, endedAt, duration) and the audit log with exactly one CALL_ENDED event.
C5_EndCallIdempotent ==
    [][\A c \in CallIds :
          (CallOk("endCall", c) /\ CallOk("endCall", c)')
          => /\ calls'[c] = calls[c]
             /\ callEvents'[c]["CALL_ENDED"] = 1]_vars

\* C6: once a Call's status is terminal (ENDED, REJECTED, MISSED, FAILED) no later
\* operation changes it to a different value.
C6_TerminalStatusFinal ==
    [][\A c \in CallIds :
          calls[c].status \in TerminalStatuses
          => calls'[c].status = calls[c].status]_vars

\* C7: initiateCall yields CALLING with the initiator JOINED and every recipient
\* INVITED; acceptCall yields ACTIVE with the accepting participant JOINED; endCall
\* yields ENDED with endedAt set, duration the whole seconds between startedAt and
\* endedAt, and exactly the participants that were JOINED set to LEFT.
C7_CallScenario ==
    [][\A c \in CallIds :
          /\ CallOk("initiateCall", c)'
                => /\ calls'[c].status = "CALLING"
                   /\ calls'[c].startedAt = now
                   /\ participants'[c][last'.b] = "JOINED"
                   /\ \A u \in last'.ids : participants'[c][u] = "INVITED"
          /\ CallOk("acceptCall", c)'
                => /\ calls'[c].status = "ACTIVE"
                   /\ participants'[c][last'.b] = "JOINED"
          /\ CallOk("endCall", c)'
                => /\ calls'[c].status = "ENDED"
                   /\ calls'[c].endedAt = now
                   /\ calls'[c].duration * 1000 <= now - calls[c].startedAt
                   /\ now - calls[c].startedAt < (calls'[c].duration + 1) * 1000
                   /\ \A u \in CallUsers :
                         participants'[c][u] =
                            IF participants[c][u] = "JOINED" THEN "LEFT"
                            ELSE participants[c][u]]_vars

\* a VIDEO_1TO1 call that was accepted and then ended 42 seconds after its start
C7_Witness ==
    \E c \in CallIds :
        /\ CallOk("endCall", c)
        /\ calls[c].callType = "VIDEO_1TO1"
        /\ calls[c].status = "ENDED"
        /\ calls[c].endedAt - calls[c].startedAt = 42000
        /\ calls[c].duration = 42
        /\ callEvents[c]["CALL_ACCEPTED"] = 1
        /\ \A u \in CallUsers : participants[c][u] = "LEFT"

\* C8: in a 1:1 call a participant whose status is LEFT does not become JOINED again.
C8_NoRejoinOneToOne ==
    [][\A c \in CallIds, u \in CallUsers :
          (calls[c].callType \in OneToOne /\ participants[c][u] = "LEFT")
          => participants'[c][u] # "JOINED"]_vars


(***************************************************************************)
(* Delivery and read tracking claims                                       *)
(***************************************************************************)
StatusRank(status) ==
    CASE status = "sent" -> 0
      [] status = "delivered" -> 1
      [] status = "read" -> 2

ReadOk(op, u) == last.op = op /\ last.b = u /\ readResult = "row"

\* C9: for a message and a user other than its sender, markDelivered applied
\* after markRead leaves readAt set and unchanged, and no step of markDelivered,
\* markRead or markConversationRead lowers the per-recipient status
\* (sent < delivered < read).
C9_StatusNeverRegresses ==
    [][\A m \in MessageIds, u \in ReadUsers :
          (MessageExists(m) /\ messages[m].senderId # u) =>
             /\ StatusRank(recipientStatus(messageRead', m, u))
                   >= StatusRank(recipientStatus(messageRead, m, u))
             /\ ( /\ last'.op = "markMessageAsDelivered"
                  /\ last'.a = m /\ last'.b = u
                  /\ recipientStatus(messageRead, m, u) = "read" )
                => messageRead'[<<m, u>>].readAt = messageRead[<<m, u>>].readAt
      ]_vars

\* markDelivered has just run on a row that markRead had written earlier
C9_Witness ==
    /\ last.op = "markMessageAsDelivered"
    /\ HasRow(messageRead, last.a, last.b)
    /\ messageRead[<<last.a, last.b>>].readAt # Null
    /\ messageRead[<<last.a, last.b>>].deliveredAt > messageRead[<<last.a, last.b>>].readAt

\* C10: right after markConversationRead by B, every message not sent by B has
\* a row of B with readAt set, ConversationRead of B points at a newest such
\* message, and in a two-person conversation of B and the sender the sender's
\* aggregate status of each of those messages is read.
C10_ConversationReadMarksAll ==
    \A u \in ReadUsers :
       ReadOk("markConversationAsRead", u) =>
          /\ \A m \in notSentBy(messages, u) :
                recipientStatus(messageRead, m, u) = "read"
          /\ u \in DOMAIN conversationRead
          /\ conversationRead[u].lastReadMessageId \in latestMessages(messages, u)
          /\ (Cardinality(conversationUsers) = 2 /\ u \in conversationUsers) =>
                \A m \in notSentBy(messages, u) :
                   messageStatus(messageRead, messages, m, messages[m].senderId) = "read"


\* the status getMessagesWithReadStatus shows the sender of message m
SenderStatus(m) == messageStatus(messageRead, messages, m, messages[m].senderId)

\* the other participants of the conversation, seen from the sender of m
OtherParticipants(m) == conversationUsers \ {messages[m].senderId}

\* message m was sent in a three-person conversation and its MessageRead rows
\* are exactly the two rows of the two other participants
TwoRecipientRows(m) ==
    /\ MessageExists(m)
    /\ messages[m].senderId \in conversationUsers
    /\ Cardinality(conversationUsers) = 3
    /\ {k \in DOMAIN messageRead : k[1] = m} = {<<m, o>> : o \in OtherParticipants(m)}

ReadersOf(m) == {o \in OtherParticipants(m) : messageRead[<<m, o>>].readAt # Null}

\* C11: for a message whose sender has two other participants, both with a
\* MessageRead row, the sender's aggregate status is read when both rows have
\* readAt set and delivered when exactly one of them has.
C11_TwoRecipientAggregate ==
    \A m \in MessageIds :
       TwoRecipientRows(m) =>
          /\ Cardinality(ReadersOf(m)) = 2 => SenderStatus(m) = "read"
          /\ Cardinality(ReadersOf(m)) = 1 => SenderStatus(m) = "delivered"

\* one of the two recipients has read the message, the other has only received it
C11_Witness ==
    \E m \in MessageIds :
       /\ TwoRecipientRows(m)
       /\ Cardinality(ReadersOf(m)) = 1
       /\ SenderStatus(m) = "delivered"


\* the aggregate as a rule over the other participants of the conversation
ParticipantAggregate(m) ==
    LET others == OtherParticipants(m)
        hasRead(o) == HasRow(messageRead, m, o) /\ messageRead[<<m, o>>].readAt # Null
        hasDelivered(o) == HasRow(messageRead, m, o) /\ messageRead[<<m, o>>].deliveredAt # Null
    IN IF others # {} /\ \A o \in others : hasRead(o) THEN "read"
       ELSE IF \E o \in others : hasDelivered(o) THEN "delivered"
       ELSE "sent"

\* C12: the sender's aggregate status of an outgoing message is read exactly
\* when there is another participant and every other participant has readAt set
\* (a participant without a row counts as not read), otherwise delivered when
\* some other participant has deliveredAt set, otherwise sent.
C12_AggregateOverParticipants ==
    \A m \in MessageIds :
       (MessageExists(m) /\ messages[m].senderId \in conversationUsers) =>
          SenderStatus(m) = ParticipantAggregate(m)


\* C13: in every reachable state each MessageRead row with readAt set has
\* deliveredAt set, also when markRead or markConversationRead created the row
\* with no delivery acknowledgement before it.
C13_ReadImpliesDelivered ==
    \A k \in DOMAIN messageRead :
       messageRead[k].readAt # Null => messageRead[k].deliveredAt # Null

\* markRead or markConversationRead has just created a row that did not exist
C13_Witness ==
    /\ last.op \in {"markMessageAsRead", "markConversationAsRead"}
    /\ readResult = "row"
    /\ last.ids # {}
    /\ \A m \in last.ids :
          /\ HasRow(messageRead, m, last.b)
          /\ messageRead[<<m, last.b>>].readAt = now
          /\ messageRead[<<m, last.b>>].deliveredAt = now


\* C14: no MessageRead row belongs to the sender of its message, and a
\* markDelivered or markRead request made in the name of the sender returns
\* null, writes nothing, and makes the gateway emit nothing.
C14_NoRowForSender ==
    [][/\ \A k \in DOMAIN messageRead' : messages'[k[1]].senderId # k[2]
       /\ \A m \in MessageIds, u \in ReadUsers :
             ( /\ MessageExists(m)
               /\ messages[m].senderId = u
               /\ MarkMessageAsDelivered(m, u) \/ MarkMessageAsRead(m, u) )
             => /\ readResult' = "null"
                /\ messageRead' = messageRead
                /\ conversationRead' = conversationRead
                /\ chatEmitted' = <<>>
      ]_vars

\* the sender's own acknowledgement has just been ignored while the message
\* has rows of other users
C14_Witness ==
    /\ last.op = "unwritten"
    /\ readResult = "null"
    /\ chatEmitted = <<>>
    /\ messageRead # <<>>
    /\ \A k \in DOMAIN messageRead : messages[k[1]].senderId # k[2]


\* C15: markConversationRead is all-or-nothing: when one of its writes fails,
\* no MessageRead row and no ConversationRead change of that invocation stays
\* in the store.
C15_ConversationReadAtomic ==
    [][(last'.op = "markConversationAsRead" /\ readResult' = "error")
          => /\ messageRead' = messageRead
             /\ conversationRead' = conversationRead
      ]_vars


(***************************************************************************)
(* Call gateway claims                                                     *)
(***************************************************************************)
\* the room notifications of the seven state-changing handlers, with the
\* service operation each one announces
RoomNotifications ==
    [ev \in {"call:accepted", "call:rejected", "call:ended", "call:participant-muted",
             "call:participant-video-toggled", "group-call:participant-joined",
             "group-call:participant-left"} |->
        CASE ev = "call:accepted" -> "acceptCall"
          [] ev = "call:rejected" -> "rejectCall"
          [] ev = "call:ended" -> "endCall"
          [] ev = "call:participant-muted" -> "toggleMute"
          [] ev = "call:participant-video-toggled" -> "toggleVideo"
          [] ev = "group-call:participant-joined" -> "joinGroupCall"
          [] ev = "group-call:participant-left" -> "leaveGroupCall"]

\* C16: a room notification of call:accept, call:reject, call:end,
\* call:toggle-mute, call:toggle-video, group-call:join or group-call:leave is
\* emitted only by a step whose service operation has succeeded and has written
\* its rows (the event log of the call has grown); a step whose service
\* operation fails emits no notification and answers with an error.
C16_NotifyAfterPersist ==
    [][/\ \A e \in callEmitted' :
             e.ev \in DOMAIN RoomNotifications =>
                /\ callResult' = "ok"
                /\ last'.op = RoomNotifications[e.ev]
                /\ e.to = CallRoom(last'.a)
                /\ e.arg = last'.b
                /\ countEvents(callEvents'[last'.a]) > countEvents(callEvents[last'.a])
       /\ last'.op = "failed" => (callResult' # "ok" /\ callEmitted' = {})
       /\ (last'.op \in {RoomNotifications[ev] : ev \in DOMAIN RoomNotifications}
             /\ callResult' = "ok")
          => \E e \in callEmitted' : e.ev \in DOMAIN RoomNotifications
      ]_vars

\* a handler has just been refused by the service for an existing call:
\* nothing was emitted
C16_Witness ==
    /\ last.op = "failed"
    /\ callResult \in {"NotFound", "BadRequest"}
    /\ \E c \in CallIds : CallExists(c) /\ activeCalls[c].present
    /\ callEmitted = {}

Rejected(out, c) ==
    \E i \in 1..Len(out) : out[i].to = c /\ out[i].ev \in {"rate-limited", "error"}

\* C18: a find-partner request answered with rate-limited, already in a match or
\* already in the queue leaves the waiting pool and the match map exactly as they were.
C18_RejectedLeavesState ==
    [][(last'.op = "find-partner" /\ Rejected(emitted', last'.a))
          => /\ waitingQueue' = waitingQueue
             /\ matches' = matches]_vars

(***************************************************************************)
(* Signaling relay claims                                                  *)
(***************************************************************************)
BatchEvent == "signal-ice-candidates-batch"

\* the connection a relayed payload originates from
Sender(e) == IF e.ev = BatchEvent THEN e.arg[1][1] ELSE e.arg

\* C19: once the disconnect of a sender is handled, no batch entry (and so no pending
\* timer) remains for it, and no step emits a batch of candidates that a connection
\* already gone had buffered.
C19_DisconnectCancelsBatch ==
    [][/\ \A s \in Sockets :
             conn'[s] = "gone" => ~HasBatch(iceCandidateBatches', s)
       /\ \A i \in 1..Len(emitted') :
             emitted'[i].ev = BatchEvent
                => \A k \in 1..Len(emitted'[i].arg) : conn[emitted'[i].arg[k][1]] # "gone"
      ]_vars

\* the disconnect handler has just dropped a pending batch whose timer was not yet due
C19_Witness ==
    /\ last.op = "disconnect"
    /\ last.b > 0
    /\ conn[last.a] = "gone"
    /\ ~HasBatch(iceCandidateBatches, last.a)
    /\ emitted # <<>>

\* C20: an offer, an answer or a flushed ICE batch that originates from A is delivered
\* only to the connection that is A's partner in the match map when it is delivered;
\* a signaling message of a client without partner is dropped and changes nothing.
C20_RelayToCurrentPartner ==
    [][/\ \A i \in 1..Len(emitted') :
             emitted'[i].ev \in {"signal-offer", "signal-answer", BatchEvent}
                => /\ matches[Sender(emitted'[i])] # NoSock
                   /\ emitted'[i].to = matches[Sender(emitted'[i])]
       /\ ( /\ last'.op \in {"signal-offer", "signal-answer", "signal-ice-candidate"}
            /\ matches[last'.a] = NoSock )
          => /\ emitted' = <<>>
             /\ UNCHANGED <<conn, waitingQueue, matches, rateLimitMap, lastAccepted, iceVars>>
      ]_vars

\* the candidates buffered for s
Buffered(s) == iceCandidateBatches[s].candidates

\* the batch messages of a step, as the sequence of their payloads
BatchPayloads(out) ==
    LET batches == SelectSeq(out, LAMBDA e : e.ev = BatchEvent)
    IN  [i \in 1..Len(batches) |-> batches[i].arg]

\* s has a partner and the handler takes its candidate
Accepts(s) == conn[s] = "live" /\ matches[s] # NoSock

\* C21: a batch is flushed when its fifth candidate is buffered or when the delay
\* counted from its first candidate has expired, whichever comes first; the flush is
\* one message with all buffered candidates in arrival order and removes the batch;
\* a batch never holds more than five candidates and has exactly one pending timer.
C21_BatchFlush ==
    [][\A s \in Sockets :
          LET b == Buffered(s)
              b2 == Buffered(s)'
              arrived == Append(b, <<s, Len(b) + 1>>)
          IN  /\ Len(b2) < ICE_BATCH_SIZE
              /\ b2 = [k \in 1..Len(b2) |-> <<s, k>>]
              /\ Len(iceTimers'[s]) <= 1
              /\ (iceTimers'[s] # <<>>) <=> (b2 # <<>>)
              /\ (last'.op = "signal-ice-candidate" /\ last'.a = s /\ Accepts(s))
                    => IF Len(arrived) = ICE_BATCH_SIZE
                       THEN /\ BatchPayloads(emitted') = <<arrived>>
                            /\ b2 = <<>>
                       ELSE /\ BatchPayloads(emitted') = <<>>
                            /\ b2 = arrived
                            /\ iceCandidateBatches'[s].due =
                                  IF b = <<>> THEN now + ICE_BATCH_DELAY
                                  ELSE iceCandidateBatches[s].due
              /\ (last'.op = "ice-timer" /\ last'.a = s)
                    => /\ b # <<>>
                       /\ now >= iceCandidateBatches[s].due
                       /\ BatchPayloads(emitted') = <<b>>
                       /\ b2 = <<>>
              /\ (last'.op = "tick" /\ b # <<>>) => now < iceCandidateBatches[s].due
      ]_vars

\* the fifth candidate of a batch has just been buffered and the batch relayed
C21_Witness ==
    /\ last.op = "signal-ice-candidate"
    /\ BatchPayloads(emitted) # <<>>
    /\ Len(BatchPayloads(emitted)[1]) = ICE_BATCH_SIZE
    /\ Buffered(last.a) = <<>>

\* C22: a candidate accepted from a matched sender stays buffered until it is relayed
\* in exactly one batch message, which takes it out of the buffer; only the sender's
\* disconnect drops buffered candidates.
C22_RelayedExactlyOnce ==
    [][\A s \in Sockets :
          LET b == Buffered(s)
              b2 == Buffered(s)'
              arrived == IF last'.op = "signal-ice-candidate" /\ last'.a = s /\ Accepts(s)
                         THEN Append(b, <<s, Len(b) + 1>>)
                         ELSE b
              relayed == SelectSeq(BatchPayloads(emitted'),
                                   LAMBDA cs : cs # <<>> /\ cs[1][1] = s)
          IN  \/ b2 = arrived /\ relayed = <<>>
              \/ b2 = <<>> /\ relayed = <<arrived>>
              \/ b2 = <<>> /\ relayed = <<>> /\ last'.op = "disconnect" /\ last'.a = s
      ]_vars

\* a timer flush has just relayed several candidates, the last of them buffered after
\* the sender changed partner
C22_Witness ==
    /\ last.op = "ice-timer"
    /\ BatchPayloads(emitted) # <<>>
    /\ Len(BatchPayloads(emitted)[1]) >= 2
    /\ Buffered(last.a) = <<>>
    /\ matches[last.a] # NoSock
    /\ emitted[1].to # matches[last.a]

(***************************************************************************)
(* Matchmaking claims: cleanup, rate limit                                 *)
(***************************************************************************)
MatchEnded(out) == SelectSeq(out, LAMBDA e : e.ev = "match-ended")

\* C23: leave-pool or disconnect of a connection takes it out of the waiting pool and,
\* if it was matched, deletes both match-map entries and sends the former partner
\* exactly one match-ended; a repeated leave-pool changes neither the pool nor the
\* match map and sends no match-ended.
C23_CleanupEffect ==
    [][\A c \in Sockets :
          (last'.op \in {"leave-pool", "disconnect"} /\ last'.a = c)
          => LET p == matches[c] IN
             /\ waitingQueue' = SeqRemove(waitingQueue, c)
             /\ matches' = [s \in Sockets |->
                              IF s = c \/ (p # NoSock /\ s = p) THEN NoSock
                              ELSE matches[s]]
             /\ MatchEnded(emitted') =
                   IF p # NoSock THEN <<Ev(p, "match-ended", 0)>> ELSE <<>>
             /\ (last.op = "leave-pool" /\ last.a = c)
                   => /\ waitingQueue' = waitingQueue
                      /\ matches' = matches
                      /\ MatchEnded(emitted') = <<>>
      ]_vars

\* a matched connection has just left: its former partner got match-ended, both
\* entries are gone, and the connection is still there to ask again
C23_Witness ==
    /\ last.op = "leave-pool"
    /\ Len(MatchEnded(emitted)) = 1
    /\ matches[last.a] = NoSock
    /\ matches[MatchEnded(emitted)[1].to] = NoSock
    /\ conn[last.a] = "live"

\* less than the cooldown window has passed since the last accepted request of u
InCooldown(u) == lastAccepted[u] # Null /\ now - lastAccepted[u] < RATE_LIMIT_MS

\* C24: a find-partner request is answered rate-limited exactly when less than the
\* cooldown window has passed since the identity's last accepted request; a
\* rate-limited request leaves the stamp alone, an accepted one stamps the current
\* time whatever it ends as.
C24_RateLimitWindow ==
    [][\A c \in Sockets :
          (last'.op = "find-partner" /\ last'.a = c)
          => LET u == UserOf(c) IN
             /\ EmittedTo(c, {"rate-limited"})' <=> InCooldown(u)
             /\ InCooldown(u) => rateLimitMap'[u] = rateLimitMap[u]
             /\ ~InCooldown(u) => rateLimitMap'[u] = now
      ]_vars
\* C25: at every heartbeat sweep each tracked connection whose last heartbeat is
\* older than the staleness threshold is disconnected and loses its metrics entry,
\* and a tracked connection whose last heartbeat is within the threshold keeps both.
C25_SweepEvictsStale ==
    [][last'.op = "sweep"
       => \A s \in Sockets :
             Tracked(s)
             => IF now - connectionMetrics[s] > STALE_CONNECTION_TIMEOUT
                THEN conn'[s] = "gone" /\ connectionMetrics'[s] = Null
                ELSE conn'[s] = conn[s] /\ connectionMetrics'[s] = connectionMetrics[s]
      ]_vars

\* the pair <<c, p>> linked by a find-partner of the v1 gateway is still linked
Linked(m, c, p) == m[c] = p /\ m[p] = c

\* C26: in the persistence-backed gateway, when the creation of the connection record
\* fails, the handler resumes without touching the match map (a pair that is still
\* linked stays linked), stores no record id, and sends match-found to both sides.
C26_CreateFailureProceeds ==
    [][last'.op = "create-failed"
       => /\ matches' = matches
          /\ activeConnections' = activeConnections
          /\ connectionRecords' = connectionRecords
          /\ emitted' = <<Ev(last'.a, "match-found", 1), Ev(last'.b, "match-found", 2)>>
      ]_vars

C26_Witness ==
    /\ last.op = "create-failed"
    /\ Linked(matches, last.a, last.b)
    /\ EmittedTo(last.a, {"match-found"}) /\ EmittedTo(last.b, {"match-found"})
    /\ activeConnections[last.a] = Null /\ activeConnections[last.b] = Null

\* C27: in the persistence-backed gateway, when the handler resumes after the write
\* and the pair it linked has been dissolved in the meantime, it sends no match-found
\* and stores no record id for a connection that is not matched.
C27_RevalidatedAfterWrite ==
    [][\A c, p \in Sockets :
         (/\ last'.op \in {"created", "create-failed"}
          /\ last'.a = c /\ last'.b = p
          /\ ~Linked(matches, c, p))
         => /\ ~EmittedTo(c, {"match-found"})'
            /\ ~EmittedTo(p, {"match-found"})'
            /\ \A s \in {c, p} : matches'[s] = NoSock => activeConnections'[s] = Null
      ]_vars

\* C28: a Call enters REJECTED or MISSED only from CALLING or RINGING; in particular
\* rejectCall or markCallAsMissed on an ACTIVE call does not make it REJECTED or MISSED.
C28_RejectedMissedOnlyBeforeAnswer ==
    [][\A c \in CallIds :
         (calls'[c].status \in {"REJECTED", "MISSED"} /\ calls'[c].status # calls[c].status)
         => calls[c].status \in {"CALLING", "RINGING"}
      ]_vars

C30_RejectCallEffect ==
    [][\A c \in CallIds, u \in CallUsers :
         (last'.op = "rejectCall" /\ last'.a = c /\ last'.b = u)
         => /\ participants'[c][u] = "REJECTED"
            /\ callEvents'[c]["CALL_REJECTED"] = callEvents[c]["CALL_REJECTED"] + 1
            /\ countEvents(callEvents'[c]) = countEvents(callEvents[c]) + 1
            /\ IF calls[c].callType \in OneToOne
               THEN /\ calls'[c].status = "REJECTED"
                    /\ calls'[c].endedAt = now /\ calls'[c].endedAt # Null
               ELSE /\ calls'[c] = calls[c]
                    /\ \A v \in CallUsers \ {u} : participants'[c][v] = participants[c][v]
      ]_vars

\* an invited user has just rejected a group call that stays in progress with its
\* initiator still joined
C30_Witness ==
    /\ last.op = "rejectCall"
    /\ calls[last.a].callType \in GroupTypes
    /\ calls[last.a].status \in {"CALLING", "RINGING", "ACTIVE"}
    /\ calls[last.a].endedAt = Null
    /\ participants[last.a][last.b] = "REJECTED"
    /\ last.b # calls[last.a].initiatorId
    /\ participants[last.a][calls[last.a].initiatorId] = "JOINED"

SomeoneJoined(ps, c) == \E v \in CallUsers : ps[c][v] = "JOINED"

\* C31: leaveGroupCall sets the leaver to LEFT; it ends the call only when no
\* participant is JOINED, a participant that joined while the leave was in progress
\* included, and it leaves the Call status alone when it finds a participant JOINED.
C31_LeaveEndsIffNobodyJoined ==
    [][\A t \in CallTaskIds :
         (last'.a = t /\ callTasks[t].op = "leaveGroupCall" /\ callTasks'[t] # callTasks[t]
          /\ ~AtRest(callTasks[t]))
         => LET c == callTasks[t].callId
                u == callTasks[t].userId
            IN  /\ callTasks[t].pc = "participant" => participants'[c][u] = "LEFT"
                /\ calls'[c].status # calls[c].status
                      => calls'[c].status = "ENDED" /\ ~SomeoneJoined(participants, c)
                /\ (callTasks[t].pc = "count" /\ callTasks'[t].pc = "done")
                      => SomeoneJoined(participants, c)
      ]_vars

\* C32: joinGroupCall and leaveGroupCall are group-only: on an AUDIO_1TO1 or VIDEO_1TO1
\* call neither succeeds, so neither changes a participant status or the Call status
\* nor appends an event (a request that fails leaves every row as it was).
C32_GroupOnly ==
    [][\A c \in CallIds :
         (last'.op \in {"joinGroupCall", "leaveGroupCall"} /\ last'.a = c
          /\ calls[c].callType \in OneToOne)
         => /\ participants'[c] = participants[c]
            /\ calls'[c] = calls[c]
            /\ callEvents'[c] = callEvents[c]
      ]_vars

\* C33: every connection id in the active-call set of a call belongs to a user whose
\* CallParticipant status in that call is JOINED.
C33_ActiveSocketsJoined ==
    \A c \in CallIds : \A s \in activeCalls[c].sockets :
        /\ callSockets[s].userId # NoUser
        /\ participants[c][callSockets[s].userId] = "JOINED"

\* task t has completed the method op for user u on call c
Completed(t, op, c, u) ==
    /\ callTasks[t].pc = "done" /\ callTasks[t].op = op
    /\ callTasks[t].callId = c /\ callTasks[t].userId = u

\* C34: when an acceptCall and a rejectCall of the same participant of a 1:1 call have
\* both completed, in whatever interleaving, the participant is JOINED and the Call
\* ACTIVE, or the participant is REJECTED and the Call REJECTED.
C34_AcceptRejectRace ==
    \A c \in CallIds, u \in CallUsers, t1, t2 \in CallTaskIds :
        (/\ Completed(t1, "acceptCall", c, u)
         /\ Completed(t2, "rejectCall", c, u)
         /\ calls[c].callType \in OneToOne)
        => \/ participants[c][u] = "JOINED" /\ calls[c].status = "ACTIVE"
           \/ participants[c][u] = "REJECTED" /\ calls[c].status = "REJECTED"

\* messages of others that user u has not covered with ConversationRead.lastReadAt
UnreadOf(u) ==
    {m \in 1..Len(messages) :
        /\ messages[m].senderId # u
        /\ u \in DOMAIN conversationRead => messages[m].createdAt > conversationRead[u].lastReadAt}

\* C35: getUnreadCount is the number of messages of others created strictly after the
\* user's lastReadAt (all of them without a ConversationRead row); markMessageAsDelivered
\* and markMessageAsRead never change it, and it is 0 right after the user's
\* markConversationAsRead.
C35_UnreadCount ==
    [][\A u \in ReadUsers :
         /\ getUnreadCount(messages, conversationRead, u) = Cardinality(UnreadOf(u))
         /\ last'.op \in {"markMessageAsDelivered", "markMessageAsRead"}
               => getUnreadCount(messages', conversationRead', u)
                     = getUnreadCount(messages, conversationRead, u)
         /\ (last'.op = "markConversationAsRead" /\ last'.b = u)
               => getUnreadCount(messages', conversationRead', u) = 0
      ]_vars

\* a user with unread messages has just marked the conversation read
C35_Witness ==
    /\ last.op = "markConversationAsRead" /\ last.a # 0
    /\ last.b \in DOMAIN conversationRead
    /\ notSentBy(messages, last.b) # {}
    /\ getUnreadCount(messages, conversationRead, last.b) = 0
    /\ \E v \in ReadUsers \ {last.b} : getUnreadCount(messages, conversationRead, v) > 0

\* C36: every message of another user whose createdAt is at or before the user's
\* ConversationRead.lastReadAt has a MessageRead row of the user with readAt set.
C36_CoveredMessagesAreRead ==
    \A u \in DOMAIN conversationRead : \A m \in 1..Len(messages) :
        (messages[m].senderId # u /\ messages[m].createdAt <= conversationRead[u].lastReadAt)
        => HasRow(messageRead, m, u) /\ messageRead[<<m, u>>].readAt # Null

\* C37: a Call whose status is ENDED, REJECTED or MISSED has no CallParticipant
\* with status JOINED.
C37_TerminalCallNobodyJoined ==
    \A c \in CallIds :
        (calls[c] # NoCall /\ calls[c].status \in {"ENDED", "REJECTED", "MISSED"})
        => \A u \in CallUsers : participants[c][u] # "JOINED"

\* C38: in every MessageRead row with both timestamps set, deliveredAt is not later
\* than readAt.
C38_DeliveredNotAfterRead ==
    \A k \in DOMAIN messageRead :
        (messageRead[k].deliveredAt # Null /\ messageRead[k].readAt # Null)
        => messageRead[k].deliveredAt <= messageRead[k].readAt

\* C39: the waiting pool of RandomChatGateway (both versions) never holds more than
\* one connection, and every waiting-for-partner event that reports a queuePosition
\* (the first version sends no payload, written 0) reports 1.
C39_PoolAtMostOne ==
    /\ Len(waitingQueue) <= 1
    /\ \A i \in 1..Len(emitted) :
          (emitted[i].ev = "waiting-for-partner" /\ emitted[i].arg # 0)
          => emitted[i].arg = 1

\* a connection has just entered the pool alone while a second connection is closed
\* and a third is live and unmatched
C39_Witness ==
    /\ last.op = "find-partner"
    /\ waitingQueue = <<last.a>>
    /\ EmittedTo(last.a, {"waiting-for-partner"})
    /\ \E s \in Sockets \ {last.a} : conn[s] = "closed"
    /\ \E s \in Sockets \ {last.a} : conn[s] = "live" /\ ~Matched(s)

\* C40: a call:offer, call:answer or call:ice-candidate naming call c and target T
\* is relayed to T only when the sending connection is identified and both its user
\* and T are participants of call c.
C40_SignalOnlyBetweenParticipants ==
    [][\A s \in CallSockets, c \in CallIds, T \in CallUsers :
         (/\ last'.op \in CallSignals
          /\ last'.a = c /\ last'.b = T /\ last'.ids = {s}
          /\ \E e \in callEmitted' : e.to = UserRoom(T) /\ e.ev = last'.op)
         => /\ callSockets[s].userId # NoUser
            /\ IsParticipant(c, callSockets[s].userId)
            /\ IsParticipant(c, T)
      ]_vars

====
